---- MODULE Spec2Model ----
(***************************************************************************)
(* TunePulse-RS motor-control core (crate tunepulse_algo).                 *)
(*                                                                         *)
(* The module models MotorController::tick together with everything it     *)
(* calls: the position integrator, the supply-voltage filter, the angle    *)
(* calibrator state machine, the calibration table and the PWM stage.      *)
(* Machine integers keep their Rust width: u16/i16/i32 casts are explicit, *)
(* `/` truncates toward zero and `>>` on a signed value is an arithmetic   *)
(* shift.  A Rust panic (division by zero, checked-arithmetic overflow)    *)
(* halts the firmware: the model records it in `panicked` and no further   *)
(* tick is taken.                                                          *)
(***************************************************************************)
EXTENDS Integers, Sequences, FiniteSets, TLC

\* ------------------------------------------------------------------------
\* Machine arithmetic
\* ------------------------------------------------------------------------
U16_MAX == 65535
I16_MAX == 32767
I16_MIN == -32768
I32_MAX == 2147483647
I32_MIN == (-2147483647) - 1

\* `x as u16`
AsU16(x) == x % 65536

\* `x as i16`
AsI16(x) == LET m == x % 65536 IN IF m >= 32768 THEN m - 65536 ELSE m

\* Rust integer division: truncation toward zero (divisor # 0)
TruncDiv(a, b) ==
    IF a >= 0
    THEN (IF b > 0 THEN a \div b ELSE -(a \div (-b)))
    ELSE (IF b > 0 THEN -((-a) \div b) ELSE (-a) \div (-b))

\* `x >> n` (arithmetic shift: floor division by 2^n)
Shr(x, n) == x \div (2 ^ n)

Min2(a, b) == IF a <= b THEN a ELSE b
Max2(a, b) == IF a >= b THEN a ELSE b
Abs(x) == IF x < 0 THEN -x ELSE x
Signum(x) == IF x > 0 THEN 1 ELSE IF x < 0 THEN -1 ELSE 0

\* ------------------------------------------------------------------------
\* Bounds of the model
\* ------------------------------------------------------------------------
\* Capacity of the calibration table (the const generic N of CalibrationTable)
N == 8
\* Ticks explored after the calibrator has reached Done or Error
MaxIdle == 600
\* Forward-pass samples explored before the model stops following a run
MaxCalIdx == 10

\* ------------------------------------------------------------------------
\* CalibrationTable  (motor_driver/calibration/calibration_table.rs)
\* The table is a record with the fields of the struct; cal_table is a
\* function on 0..N-1.
\* ------------------------------------------------------------------------
CalibrationTable_new ==
    [ cal_table     |-> [i \in 0..(N - 1) |-> 0],
      cal_size      |-> 0,
      el_angle_div  |-> 1,
      offst_idx     |-> 0,
      offst_val     |-> 0,
      max_deviation |-> 0,
      temp_idx      |-> 0 ]

reset(t, div) ==
    [ t EXCEPT !.offst_idx = 0,
               !.el_angle_div = div,
               !.cal_size = 0,
               !.offst_val = U16_MAX,
               !.max_deviation = 0,
               !.temp_idx = 0 ]

\* Variant: the difference compared as a signed number, which also accepts
\* an index below the last accepted one
fill_first_ok_signed(t, idx) == idx < N /\ (idx - t.temp_idx) <= 1

\* idx.wrapping_sub(temp_idx) <= 1 on usize: idx is temp_idx or temp_idx + 1
fill_first_ok(t, idx) == idx < N /\ (idx - t.temp_idx) \in {0, 1}

fill_first(t, idx, val) ==
    IF fill_first_ok(t, idx)
    THEN [ t   |-> [ t EXCEPT !.temp_idx = idx,
                              !.cal_table[idx] = val,
                              !.cal_size = Max2(t.cal_size, idx + 1) ],
           ret |-> TRUE ]
    ELSE [ t |-> t, ret |-> FALSE ]

\* The averaged entry: existing + ((val - existing) as i16) / 2, wrapping
fill_second_avg(existing, val) ==
    AsU16(existing + AsU16(TruncDiv(AsI16(val - existing), 2)))

\* Variant: every index is a candidate for the offset
fill_second_every_idx(t, idx, val) ==
    IF idx < N
    THEN LET v  == fill_second_avg(t.cal_table[idx], val)
             t1 == [ t EXCEPT !.cal_table[idx] = v ]
             t2 == IF v <= t1.offst_val
                   THEN [ t1 EXCEPT !.offst_val = v, !.offst_idx = idx ]
                   ELSE t1
         IN  IF idx + 1 = t2.cal_size
             THEN [ t |-> [ t2 EXCEPT !.max_deviation = v ], ret |-> TRUE ]
             ELSE LET diff == AsI16(t2.max_deviation - v)
                  IN  [ t   |-> [ t2 EXCEPT !.max_deviation = v ],
                        ret |-> diff > 10 ]
    ELSE [ t |-> t, ret |-> FALSE ]

fill_second(t, idx, val) ==
    IF idx < N
    THEN LET v  == fill_second_avg(t.cal_table[idx], val)
             t1 == [ t EXCEPT !.cal_table[idx] = v ]
             \* idx % el_angle_div divides by zero when el_angle_div = 0
             t2 == IF (idx % t1.el_angle_div) = 0 /\ v <= t1.offst_val
                   THEN [ t1 EXCEPT !.offst_val = v, !.offst_idx = idx ]
                   ELSE t1
         IN  IF idx + 1 = t2.cal_size
             THEN [ t |-> [ t2 EXCEPT !.max_deviation = v ], ret |-> TRUE ]
             ELSE LET diff == AsI16(t2.max_deviation - v)
                  IN  [ t   |-> [ t2 EXCEPT !.max_deviation = v ],
                        ret |-> diff > 10 ]
    ELSE [ t |-> t, ret |-> FALSE ]

get_val_by_idx(t, index) == t.cal_table[(t.offst_idx + index) % t.cal_size]

get_ideal(i, range) == AsU16((U16_MAX * i) \div range)

\* Variant: the signed difference cast without taking its absolute value
abs_deviation_signed(val, idx, size) ==
    AsU16(AsI16(AsU16((U16_MAX * idx) \div size) - val))

abs_deviation(val, idx, size) ==
    AsU16(Abs(AsI16(get_ideal(idx, size) - val)))

interpolate(a1, a2, b1, b2, c1) ==
    LET ref_range  == AsU16(b1 - a1)
        trgt_range == AsU16(b2 - a2)
        c1_ofst    == AsU16(c1 - a1)
        c2_ofst    == (c1_ofst * trgt_range) \div ref_range
    IN  AsU16(a2 + c2_ofst)

\* check(): walk the filled entries in order, normalising each by the offset;
\* stop at the first entry whose deviation reaches avg_step.
\* Callers guard cal_size # 0 (u16::MAX / 0 panics).
RECURSIVE check_loop(_, _, _)
check_loop(t, i, avg_step) ==
    IF i >= t.cal_size
    THEN [ t |-> t, ret |-> TRUE ]
    ELSE LET val           == AsU16(t.cal_table[i] - t.offst_val)
             corrected_idx == ((t.cal_size + i) - t.offst_idx) % t.cal_size
             deviation     == abs_deviation(val, corrected_idx, t.cal_size)
             t1 == [ t EXCEPT !.cal_table[i] = val,
                              !.max_deviation = Max2(t.max_deviation, deviation) ]
         IN  IF deviation >= avg_step
             THEN [ t |-> t1, ret |-> FALSE ]
             ELSE check_loop(t1, i + 1, avg_step)

check(t) ==
    check_loop([ t EXCEPT !.max_deviation = 0 ], 0, U16_MAX \div t.cal_size)

\* correct_pos(): the bracket search of at most 8 steps
RECURSIVE correct_loop(_, _, _, _, _, _)
correct_loop(t, real_pos, idx, cal_pos1, idl_pos1, left) ==
    IF left = 0
    THEN U16_MAX
    ELSE LET idx2     == (idx + 1) % t.cal_size
             cal_pos2 == get_val_by_idx(t, idx2)
             idl_pos2 == get_ideal(idx2, t.cal_size)
             diff1    == AsI16(real_pos - cal_pos1)
             diff2    == AsI16(real_pos - cal_pos2)
         IN  IF diff1 >= 0 /\ diff2 < 0
             THEN interpolate(cal_pos1, idl_pos1, cal_pos2, idl_pos2, real_pos)
             ELSE correct_loop(t, real_pos, idx2, cal_pos2, idl_pos2, left - 1)

\* Callers guard cal_size # 0 and el_angle_div # 0 (both divide)
correct_pos(t, position) ==
    LET real_pos == AsU16(position - t.offst_val)
        idx      == Shr(AsU16(real_pos - t.max_deviation) * t.cal_size, 16)
        result   == correct_loop(t, real_pos, idx, get_val_by_idx(t, idx),
                                 get_ideal(idx, t.cal_size), 8)
    IN  << AsU16(result + t.offst_val),
           AsU16((result * t.cal_size) \div t.el_angle_div) >>

\* ------------------------------------------------------------------------
\* AngleCalibrator  (motor_driver/calibration/angle_calibrator.rs)
\* A usize that wrapped below zero is kept as its two's-complement negative
\* (usize::MAX is -1); unsigned comparisons treat it as larger than any
\* table index.
\* ------------------------------------------------------------------------
CAL_OVERSEMPLING == 64
CAL_SETTLING_TIME == 256
CAL_SPEED == 32
CAL_FIRST_STEP_USTEPS == 16

AngleCalibrator_new(frequency) ==
    [ frequency         |-> frequency,
      position          |-> 0,
      calibration_stage |-> "Settle",
      cal_cycle_stage   |-> "Setup",
      angle_el          |-> 0,
      cal_idx           |-> 0,
      oversampled_pos   |-> 0,
      time_in_state     |-> 0,
      ang_el_step       |-> 0,
      direction         |-> 0,
      speed             |-> CAL_SPEED,
      init_pos          |-> 0,
      temp_pos          |-> 0,
      dif_max           |-> I32_MIN,
      dif_min           |-> I32_MAX,
      cal_table         |-> CalibrationTable_new ]

\* iter(counter): the counter after the call
iter_next(counter) == IF counter > 0 THEN counter - 1 ELSE counter
\* iter(counter): the value returned
iter_done(counter) == ~(counter > 0)

\* Variant: the countdown ends one sample early
cal_oversampling_early(time_in_state) == (time_in_state - 1) <= 1

\* cal_oversampling(position, iter, integral): true when the countdown ends
cal_oversampling_done(time_in_state) == (time_in_state - 1) = 0

move_at_speed(angle_el, increment) == AsU16(angle_el + AsU16(increment))

\* run_sampling_cycle(steps): the calibrator after the call, the value
\* returned and whether the call panicked (steps / |speed| with speed = 0)
run_sampling_cycle(c, steps) ==
    CASE c.cal_cycle_stage = "Setup" ->
           IF Abs(c.speed) = 0
           THEN [ c |-> c, ret |-> I32_MIN, panic |-> TRUE ]
           ELSE [ c |-> [ c EXCEPT !.oversampled_pos = 0,
                                   !.cal_cycle_stage = "Rotating",
                                   !.time_in_state = steps \div Abs(c.speed) ],
                  ret |-> I32_MIN, panic |-> FALSE ]
      [] c.cal_cycle_stage = "Rotating" ->
           LET moved == [ c EXCEPT !.angle_el = move_at_speed(c.angle_el, c.speed) ]
           IN  IF iter_done(c.time_in_state)
               THEN [ c |-> [ moved EXCEPT !.cal_cycle_stage = "Waiting",
                                           !.time_in_state = CAL_SETTLING_TIME ],
                      ret |-> I32_MIN, panic |-> FALSE ]
               ELSE [ c |-> [ moved EXCEPT !.time_in_state = iter_next(c.time_in_state) ],
                      ret |-> I32_MIN, panic |-> FALSE ]
      [] c.cal_cycle_stage = "Waiting" ->
           IF iter_done(c.time_in_state)
           THEN [ c |-> [ c EXCEPT !.cal_cycle_stage = "Sampling",
                                   !.time_in_state = CAL_OVERSEMPLING ],
                  ret |-> I32_MIN, panic |-> FALSE ]
           ELSE [ c |-> [ c EXCEPT !.time_in_state = iter_next(c.time_in_state) ],
                  ret |-> I32_MIN, panic |-> FALSE ]
      [] c.cal_cycle_stage = "Sampling" ->
           LET sum == c.oversampled_pos + c.position
           IN  IF cal_oversampling_done(c.time_in_state)
               THEN LET avg == TruncDiv(sum, CAL_OVERSEMPLING)
                    IN  [ c |-> [ c EXCEPT !.oversampled_pos = avg,
                                           !.time_in_state = c.time_in_state - 1,
                                           !.cal_cycle_stage = "Setup" ],
                          ret |-> avg, panic |-> FALSE ]
               ELSE [ c |-> [ c EXCEPT !.oversampled_pos = sum,
                                       !.time_in_state = c.time_in_state - 1 ],
                      ret |-> I32_MIN, panic |-> FALSE ]

\* Variant: ready as soon as the backward pass is over
is_ready_early(c) == c.calibration_stage \in {"Normalization", "Done"}

is_ready(c) == c.calibration_stage = "Done"

get_correction(c, pos) == correct_pos(c.cal_table, pos)

\* The stage match of AngleCalibrator::tick, taken when the sampling cycle
\* returned a stable position; one operator per match arm.  Each gives the
\* calibrator after the arm, whether it panicked, and the result of the
\* table validation it made ("none", "pass" or "fail").
StageResult(c) == [ c |-> c, panic |-> FALSE, checked |-> "none" ]

stage_Settle(c) ==
    StageResult([ c EXCEPT !.cal_idx = 10,
                           !.calibration_stage = "Setup",
                           !.speed = CAL_SPEED ])

stage_Setup(c, stable_pos) ==
    IF iter_done(c.cal_idx)
    THEN StageResult([ c EXCEPT !.init_pos = stable_pos,
                                !.temp_pos = stable_pos,
                                !.dif_max = I32_MIN,
                                !.dif_min = I32_MAX,
                                !.ang_el_step = U16_MAX \div CAL_FIRST_STEP_USTEPS,
                                !.cal_idx = CAL_FIRST_STEP_USTEPS,
                                !.calibration_stage = "FirstStep" ])
    ELSE StageResult([ c EXCEPT !.cal_idx = iter_next(c.cal_idx) ])

\* Variant: the test fails when the average step is below the deviation
\* itself
stage_FirstStep_single(c, stable_pos) ==
    LET dif == c.temp_pos - stable_pos
        c1  == [ c EXCEPT !.temp_pos = stable_pos,
                          !.dif_min = Min2(c.dif_min, dif),
                          !.dif_max = Max2(c.dif_max, dif) ]
    IN  IF iter_done(c.cal_idx)
        THEN LET travel    == c1.init_pos - c1.temp_pos
                 direction == Signum(travel)
                 avg_step  == TruncDiv(travel * direction, CAL_FIRST_STEP_USTEPS)
                 diviation == c1.dif_max - c1.dif_min
                 c2        == [ c1 EXCEPT !.direction = direction ]
             IN  IF avg_step < diviation
                 THEN StageResult([ c2 EXCEPT !.calibration_stage = "Error" ])
                 ELSE StageResult([ c2 EXCEPT !.cal_idx = 0,
                                              !.ang_el_step = U16_MAX \div 4,
                                              !.speed = CAL_SPEED * direction,
                                              !.calibration_stage = "SearchZero" ])
        ELSE StageResult([ c1 EXCEPT !.cal_idx = iter_next(c.cal_idx) ])

stage_FirstStep(c, stable_pos) ==
    LET dif == c.temp_pos - stable_pos
        c1  == [ c EXCEPT !.temp_pos = stable_pos,
                          !.dif_min = Min2(c.dif_min, dif),
                          !.dif_max = Max2(c.dif_max, dif) ]
    IN  IF iter_done(c.cal_idx)
        THEN LET travel    == c1.init_pos - c1.temp_pos
                 direction == Signum(travel)
                 avg_step  == TruncDiv(travel * direction, CAL_FIRST_STEP_USTEPS)
                 diviation == c1.dif_max - c1.dif_min
                 c2        == [ c1 EXCEPT !.direction = direction ]
             IN  IF avg_step < diviation * 2
                 THEN StageResult([ c2 EXCEPT !.calibration_stage = "Error" ])
                 ELSE StageResult([ c2 EXCEPT !.cal_idx = 0,
                                              !.ang_el_step = U16_MAX \div 4,
                                              !.speed = CAL_SPEED * direction,
                                              !.calibration_stage = "SearchZero" ])
        ELSE StageResult([ c1 EXCEPT !.cal_idx = iter_next(c.cal_idx) ])

stage_SearchZero(c, stable_pos) ==
    StageResult([ c EXCEPT !.calibration_stage = "FullRotationPositive",
                           !.speed = -c.speed,
                           !.cal_idx = 0,
                           !.init_pos = stable_pos,
                           !.cal_table = reset(c.cal_table, 4) ])

stage_FullRotationPositive(c, stable_pos) ==
    LET avg_step == TruncDiv(TruncDiv(stable_pos - c.init_pos, c.cal_idx + 1), 4)
    IN  IF stable_pos - c.init_pos > U16_MAX + TruncDiv(avg_step, 4)
        THEN StageResult([ c EXCEPT !.calibration_stage = "FullRotationNegative",
                                    !.speed = -c.speed ])
        ELSE StageResult([ c EXCEPT !.cal_table = fill_first(c.cal_table, c.cal_idx,
                                                             AsU16(stable_pos)).t,
                                    !.cal_idx = c.cal_idx + 1 ])

\* `wrap` is the build's answer to cal_idx -= 1 at zero (TRUE: overflow
\* checks off, the value wraps to usize::MAX; FALSE: the subtraction panics)
stage_FullRotationNegative(c, stable_pos, wrap) ==
    IF c.cal_idx = 0 /\ ~wrap
    THEN [ StageResult(c) EXCEPT !.panic = TRUE ]
    ELSE LET idx == c.cal_idx - 1
             tbl == IF idx >= 0
                    THEN fill_second(c.cal_table, idx, AsU16(stable_pos)).t
                    ELSE c.cal_table
             c1  == [ c EXCEPT !.cal_idx = idx, !.cal_table = tbl ]
         IN  IF idx = 0
             THEN StageResult([ c1 EXCEPT !.calibration_stage = "Normalization",
                                          !.angle_el = 0 ])
             ELSE StageResult(c1)

\* Variant: the arm restarts the calibration (the assignment left commented
\* out in the arm)
stage_Normalization_restart(c) ==
    [ c       |-> [ c EXCEPT !.calibration_stage = "Settle" ],
      panic   |-> FALSE,
      checked |-> "none" ]

\* The table's normalisation and validation are CalibrationTable::check;
\* its result is not used by the calibrator
stage_Normalization(c) ==
    IF c.cal_table.cal_size = 0
    THEN [ StageResult(c) EXCEPT !.panic = TRUE ]
    ELSE LET r == check(c.cal_table)
         IN  [ c       |-> [ c EXCEPT !.cal_table = r.t,
                                      !.calibration_stage = "Done" ],
               panic   |-> FALSE,
               checked |-> IF r.ret THEN "pass" ELSE "fail" ]

tick_stage(c, stable_pos, wrap) ==
    CASE c.calibration_stage = "Settle" -> stage_Settle(c)
      [] c.calibration_stage = "Setup" -> stage_Setup(c, stable_pos)
      [] c.calibration_stage = "FirstStep" -> stage_FirstStep(c, stable_pos)
      [] c.calibration_stage = "SearchZero" -> stage_SearchZero(c, stable_pos)
      [] c.calibration_stage = "FullRotationPositive" ->
           stage_FullRotationPositive(c, stable_pos)
      [] c.calibration_stage = "FullRotationNegative" ->
           stage_FullRotationNegative(c, stable_pos, wrap)
      [] c.calibration_stage = "Normalization" -> stage_Normalization(c)
      [] c.calibration_stage \in {"Validate", "Error", "Done"} -> StageResult(c)

\* AngleCalibrator::tick(encoder_pos): the calibrator after the call, the
\* angle returned, the value the sampling cycle returned, and whether the
\* call panicked
AngleCalibrator_tick(c, encoder_pos, wrap) ==
    LET c0 == [ c EXCEPT !.position = encoder_pos ]
        s  == run_sampling_cycle(c0, c0.ang_el_step)
    IN  IF s.panic
        THEN [ c |-> c, ret |-> c.angle_el, stable |-> I32_MIN,
               panic |-> TRUE, checked |-> "none" ]
        ELSE IF s.ret # I32_MIN
        THEN LET r == tick_stage(s.c, s.ret, wrap)
             IN  [ c |-> r.c, ret |-> r.c.angle_el, stable |-> s.ret,
                   panic |-> r.panic, checked |-> r.checked ]
        ELSE [ c |-> s.c, ret |-> s.c.angle_el, stable |-> I32_MIN,
               panic |-> FALSE, checked |-> "none" ]

\* ------------------------------------------------------------------------
\* Fixed-point helpers  (math_integer/trigonometry.rs, normalization.rs,
\* motor/coil.rs)
\* ------------------------------------------------------------------------
\* Quarter sine wave, 257 entries; entry i of the source is element i + 1
SINE_QUARTER_WAVE ==
    <<
       0, 201, 402, 603, 804, 1005, 1206, 1406, 1607, 1808, 2009, 2209,
       2410, 2610, 2811, 3011, 3211, 3411, 3611, 3811, 4011, 4210, 4409, 4608,
       4807, 5006, 5205, 5403, 5601, 5799, 5997, 6195, 6392, 6589, 6786, 6982,
       7179, 7375, 7571, 7766, 7961, 8156, 8351, 8545, 8739, 8932, 9126, 9319,
       9511, 9703, 9895, 10087, 10278, 10469, 10659, 10849, 11038, 11227, 11416, 11604,
       11792, 11980, 12166, 12353, 12539, 12724, 12909, 13094, 13278, 13462, 13645, 13827,
       14009, 14191, 14372, 14552, 14732, 14911, 15090, 15268, 15446, 15623, 15799, 15975,
       16150, 16325, 16499, 16672, 16845, 17017, 17189, 17360, 17530, 17699, 17868, 18036,
       18204, 18371, 18537, 18702, 18867, 19031, 19194, 19357, 19519, 19680, 19840, 20000,
       20159, 20317, 20474, 20631, 20787, 20942, 21096, 21249, 21402, 21554, 21705, 21855,
       22004, 22153, 22301, 22448, 22594, 22739, 22883, 23027, 23169, 23311, 23452, 23592,
       23731, 23869, 24006, 24143, 24278, 24413, 24546, 24679, 24811, 24942, 25072, 25201,
       25329, 25456, 25582, 25707, 25831, 25954, 26077, 26198, 26318, 26437, 26556, 26673,
       26789, 26905, 27019, 27132, 27244, 27355, 27466, 27575, 27683, 27790, 27896, 28001,
       28105, 28208, 28309, 28410, 28510, 28608, 28706, 28802, 28897, 28992, 29085, 29177,
       29268, 29358, 29446, 29534, 29621, 29706, 29790, 29873, 29955, 30036, 30116, 30195,
       30272, 30349, 30424, 30498, 30571, 30643, 30713, 30783, 30851, 30918, 30984, 31049,
       31113, 31175, 31236, 31297, 31356, 31413, 31470, 31525, 31580, 31633, 31684, 31735,
       31785, 31833, 31880, 31926, 31970, 32014, 32056, 32097, 32137, 32176, 32213, 32249,
       32284, 32318, 32350, 32382, 32412, 32441, 32468, 32495, 32520, 32544, 32567, 32588,
       32609, 32628, 32646, 32662, 32678, 32692, 32705, 32717, 32727, 32736, 32744, 32751,
       32757, 32761, 32764, 32766, 32767
    >>

angle2sincos(angle) ==
    LET angle_uint == Shr(AsU16(angle), 6)
        index      == angle_uint % 256
        a          == SINE_QUARTER_WAVE[index + 1]
        b          == SINE_QUARTER_WAVE[(256 - index) + 1]
        quadrant   == Shr(angle_uint, 8)
    IN  CASE quadrant = 0 -> << a, b >>
          [] quadrant = 1 -> << b, -a >>
          [] quadrant = 2 -> << -a, -b >>
          [] OTHER        -> << -b, a >>

scale_sincos(input, scale) ==
    << AsI16(Shr(input[1] * scale, 15)), AsI16(Shr(input[2] * scale, 15)) >>

\* (value_norm * (full_scale >> 6)) >> 9
norm_to_value(value_norm, full_scale) ==
    Shr(value_norm * Shr(full_scale, 15 - 9), 9)

\* ((value << 9) / (full_scale >> 6)) as i16
value_to_norm(value, full_scale) ==
    AsI16(TruncDiv(value * (2 ^ 9), Shr(full_scale, 15 - 9)))

\* coil::duty::center
center(voltg_ref) ==
    IF voltg_ref = I16_MIN \/ voltg_ref = 0
    THEN << voltg_ref, voltg_ref >>
    ELSE LET duty     == Shr(voltg_ref, 1)
             MIDPOINT == Shr(I16_MAX, 1)
         IN  << MIDPOINT + duty, MIDPOINT - duty >>

\* ------------------------------------------------------------------------
\* FilterLPF, SupplyVoltage, Position  (math_integer/filters/lpf.rs,
\* analog/supply_voltage.rs, math_integer/motion/position_integrator.rs)
\* ------------------------------------------------------------------------
RESOLUTION == 7

FilterLPF_new(input_default, alpha) ==
    [ alpha  |-> alpha,
      output |-> input_default,
      temp   |-> input_default * (2 ^ RESOLUTION) ]

\* The filter sum with the weights exchanged
lpf_swapped(current, previous, alpha) ==
    alpha * (current \div 256) + (256 - alpha) * (previous \div 256)
      + ((alpha * (current % 256) + (256 - alpha) * (previous % 256)) \div 256)

\* (alpha * previous + (256 - alpha) * current) >> 8.  Both operands are
\* below 2^23 in every call, so the u32 sum is below 2^31 and cannot wrap;
\* the quotient is taken on the operands' high and low bytes, which gives
\* the same number without forming the sum.
lpf(current, previous, alpha) ==
    alpha * (previous \div 256) + (256 - alpha) * (current \div 256)
      + ((alpha * (previous % 256) + (256 - alpha) * (current % 256)) \div 256)

FilterLPF_tick(f, input) ==
    LET current == input * (2 ^ RESOLUTION)
        temp    == lpf(current, f.temp, f.alpha)
    IN  [ f EXCEPT !.temp = temp, !.output = AsU16(Shr(temp, RESOLUTION)) ]

THRESHOLD_POS == 2 ^ (16 + RESOLUTION - 1)
MASK == 2 * THRESHOLD_POS - 1

\* The offset of the wrap-aware tick, as a signed number: diff is
\* THRESHOLD_POS + (temp - current) as u32, so it is above MASK with its
\* sign bit set when the sum is negative (offset THRESHOLD_NEG, that is
\* -THRESHOLD_POS) and above MASK without it when the sum exceeds MASK
oflw_offset(temp, current) ==
    LET diff == THRESHOLD_POS + (temp - current)
    IN  IF 0 <= diff /\ diff <= MASK THEN 0
        ELSE IF diff < 0 THEN -THRESHOLD_POS
        ELSE THRESHOLD_POS

\* FilterLPF::tick_oflw.  temp - offst and current + offst do not wrap: the
\* offset is negative only when current > temp + THRESHOLD_POS and positive
\* only when temp > current + THRESHOLD_POS.  (x + offst) & MASK is the
\* residue modulo MASK + 1.
FilterLPF_tick_oflw(f, input) ==
    LET current         == input * (2 ^ RESOLUTION)
        offst           == oflw_offset(f.temp, current)
        prevs_sub_offst == f.temp - offst
        curnt_add_offst == current + offst
        temp            == (lpf(curnt_add_offst, prevs_sub_offst, f.alpha) + offst)
                             % (MASK + 1)
    IN  [ f EXCEPT !.temp = temp, !.output = AsU16(Shr(temp, RESOLUTION)) ]

\* AngleFilter (src/position_handling/angle_filter.rs): the same fields and
\* the same wrap-aware tick, with the filter sum written in line
AngleFilter_new(input_default, alpha) ==
    [ alpha  |-> alpha,
      output |-> input_default,
      temp   |-> input_default * (2 ^ RESOLUTION) ]

AngleFilter_tick(f, input) ==
    LET current        == input * (2 ^ RESOLUTION)
        bias           == oflw_offset(f.temp, current)
        prevs_sub_bias == f.temp - bias
        curnt_add_bias == current + bias
        temp           == (lpf(curnt_add_bias, prevs_sub_bias, f.alpha) + bias)
                            % (MASK + 1)
    IN  [ f EXCEPT !.temp = temp, !.output = AsU16(Shr(temp, RESOLUTION)) ]

\* ---- SpeedEstimator ------------------------------------------------------
SIZE == 8

\* a - b on i32: [overflow, v], v the two's-complement result
sub_i32(a, b) ==
    IF b < 0 /\ a > I32_MAX + b
    THEN [ overflow |-> TRUE, v |-> (a + I32_MIN) + (I32_MIN - b) ]
    ELSE IF b > 0 /\ a < I32_MIN + b
    THEN [ overflow |-> TRUE, v |-> (a - I32_MIN) - (b + I32_MIN) ]
    ELSE [ overflow |-> FALSE, v |-> a - b ]

\* The product d * f of an i32 and a u16 as hi * 65536 + lo with
\* 0 <= lo < 65536, formed on 16-bit and 8-bit limbs
mul_limbs(d, f) ==
    LET dh  == d \div 65536
        dl  == d % 65536
        a   == dl * (f \div 256)
        b   == dl * (f % 256)
        low == (a % 256) * 256 + b
    IN  [ hi |-> dh * f + (a \div 256) + (low \div 65536), lo |-> low % 65536 ]

\* d * (f as i32) on i32: [overflow, v], v the wrapping_mul result
mul_i32(d, f) ==
    LET m == mul_limbs(d, f)
    IN  [ overflow |-> m.hi < I16_MIN \/ m.hi > I16_MAX,
          v        |-> AsI16(m.hi) * 65536 + m.lo ]

SpeedEstimator_new(init_position, freq) ==
    [ freq |-> freq, speed |-> 0,
      pos_buffer |-> [ i \in 0..(SIZE - 1) |-> init_position ], idx |-> 0 ]

\* One tick and whether it panics.  kind "plain" is
\* src/position_handling/speed_estimator.rs, whose * overflows as the build
\* decides (panic with overflow checks, two's complement without: wrap);
\* kind "wrapping" is tunepulse_algo's, whose product is wrapping_mul.  The
\* subtraction is a plain - in both.
SpeedEstimator_tick(se, kind, new_position, wrap) ==
    LET difference == sub_i32(new_position, se.pos_buffer[se.idx])
        product    == mul_i32(difference.v, se.freq)
        panic      == \/ difference.overflow /\ ~wrap
                      \/ kind = "plain" /\ product.overflow /\ ~wrap
    IN  [ panic |-> panic,
          se    |-> IF panic THEN se
                    ELSE [ se EXCEPT !.speed = TruncDiv(product.v, SIZE),
                                     !.pos_buffer[se.idx] = new_position,
                                     !.idx = (se.idx + 1) % SIZE ] ]

\* ---- EncoderPositionHandler (src/position_handling/mod.rs) ----------------
EncoderPositionHandler_new(raw_angle, freq, alpha) ==
    [ position        |-> raw_angle,
      rotations       |-> 0,
      angle           |-> raw_angle,
      alpha           |-> alpha,
      filter          |-> AngleFilter_new(raw_angle, alpha),
      speed_estimator |-> SpeedEstimator_new(raw_angle, freq),
      prev_sector     |-> 2 ]

\* angle_zcd: the sector is the angle's two top bits; [h, zcd]
angle_zcd(h, angle) ==
    LET angle_current == Shr(angle, 14)
        diff          == h.prev_sector - angle_current
    IN  [ h   |-> [ h EXCEPT !.prev_sector = angle_current ],
          zcd |-> (IF diff = 3 THEN 1 ELSE 0) - (IF diff = -3 THEN 1 ELSE 0) ]

\* tick: [h, panic].  rotations += ... is an i16 addition, which overflows
\* only after 32767 turns; ((rotations as u32) << 16) as i32 is
\* rotations * 65536.  The speed estimator is the "plain" one.
EncoderPositionHandler_tick(h, input_pos, wrap) ==
    LET filter    == AngleFilter_tick(h.filter, input_pos)
        z         == angle_zcd(h, filter.output)
        rotations == h.rotations + z.zcd
        position  == filter.output + rotations * 65536
        sp        == SpeedEstimator_tick(h.speed_estimator, "plain", position, wrap)
    IN  [ panic |-> sp.panic,
          h     |-> [ z.h EXCEPT !.filter = filter,
                                 !.angle = filter.output,
                                 !.rotations = rotations,
                                 !.position = position,
                                 !.speed_estimator = sp.se ] ]

\* ---- PID (src/math_integer/controllers/pid.rs), FAST_MATH = true ---------
\* A clamp that bounds from above only
PID_clamp_upper(value, limit) ==
    IF value > limit THEN limit ELSE value

PID_clamp(value, limit) ==
    IF value > limit THEN limit
    ELSE IF value < -limit THEN -limit
    ELSE value

\* The gain taken as it is given, without the 7-bit rescaling
PID_fit_coef_unscaled(coef) ==
    PID_clamp(coef, 10000)

\* (coef << 7) / 100 after the clamp to +-10000
PID_fit_coef(coef) ==
    TruncDiv(PID_clamp(coef, 10000) * (2 ^ 7), 100)

\* |value| <= 2^16 and |coef| <= 12800: the product is an i32
PID_apply_coef(value, coef) ==
    Shr(value * coef, 7)

PID_new(kp, ki, kd, kff) ==
    [ kp  |-> PID_fit_coef(kp),
      ki  |-> PID_fit_coef(ki),
      kd  |-> PID_fit_coef(kd),
      kff |-> PID_fit_coef(kff),
      integral       |-> 0,
      previous_error |-> 0,
      output         |-> 0 ]

\* tick with limit >= 0: the integral stays within the largest limit
\* passed, so no sum leaves the i32 range; fixed_point_correction is the
\* identity with FAST_MATH
PID_tick(pid, error, feedfwd, limit) ==
    LET p          == PID_apply_coef(error, pid.kp)
        integral   == PID_clamp(pid.integral + Shr(error + pid.previous_error, 1),
                                limit)
        i          == PID_apply_coef(integral, pid.ki)
        derivative == error - pid.previous_error
        d          == PID_apply_coef(derivative, pid.kd)
        ff         == PID_apply_coef(feedfwd, pid.kff)
        output     == p + i + d + ff
    IN  [ pid EXCEPT !.integral = integral,
                     !.previous_error = error,
                     !.output = AsI16(PID_clamp(output, limit)) ]

\* ---- math_coil and math_svpwm (driver_pwm/motor_selector.rs, and
\* tunepulse_rs/src/motor_driver/pwm_control/motor_selector.rs) ---------------
\* (SQRT3 / 2.0 * 65536.0) as i32
SQRT3DIV2 == 56755

\* tunepulse_rs: only the sentinel is returned as it is
math_coil_rs(voltg_ref) ==
    IF voltg_ref = I16_MIN
    THEN << I16_MIN, I16_MIN >>
    ELSE LET mid  == TruncDiv(I16_MAX, 2)
             duty == TruncDiv(voltg_ref, 2)
         IN  << mid + duty, mid - duty >>

\* A math_coil that treats the sentinel as a reference
math_coil_no_sentinel(voltg_ref) ==
    IF voltg_ref = 0
    THEN << voltg_ref, voltg_ref >>
    ELSE LET mid  == TruncDiv(I16_MAX, 2)
             duty == TruncDiv(voltg_ref, 2)
         IN  << mid + duty, mid - duty >>

\* tunepulse_algo: voltg_ref / 2 truncates toward zero
math_coil(voltg_ref) ==
    IF voltg_ref = I16_MIN \/ voltg_ref = 0
    THEN << voltg_ref, voltg_ref >>
    ELSE LET mid  == TruncDiv(I16_MAX, 2)
             duty == TruncDiv(voltg_ref, 2)
         IN  << mid + duty, mid - duty >>

inverse_clarke_transform(sin, cos) ==
    LET beta_sqrt3_div2 == Shr(SQRT3DIV2 * cos, 16)
    IN  << sin, -Shr(sin, 1) + beta_sqrt3_div2, -Shr(sin, 1) - beta_sqrt3_div2 >>

Min3(v) == Min2(Min2(v[1], v[2]), v[3])
Max3(v) == Max2(Max2(v[1], v[2]), v[3])

\* The centring offset alone, whatever the supply
svpwm_constrain_none(v, voltg_available) ==
    [ v |-> v, voltg_offset |-> Shr(voltg_available - Max3(v) - Min3(v), 1) ]

\* The first branch of math_svpwm: the phases scaled down to the supply and
\* the offset that puts the lowest of them at 0, or the phases as they are
\* and the offset that centres them.  [v, voltg_offset]
svpwm_constrain(v, voltg_available) ==
    LET voltg_min        == Min3(v)
        voltg_max        == Max3(v)
        voltg_full_scale == voltg_max - voltg_min
    IN  IF voltg_full_scale > voltg_available
        THEN LET voltg_scale == TruncDiv(voltg_available * (2 ^ 15), voltg_full_scale)
             IN  [ v |-> << Shr(v[1] * voltg_scale, 15), Shr(v[2] * voltg_scale, 15),
                            Shr(v[3] * voltg_scale, 15) >>,
                   voltg_offset |-> -Shr(voltg_min * voltg_scale, 15) ]
        ELSE [ v |-> v,
               voltg_offset |-> Shr(voltg_available - voltg_max - voltg_min, 1) ]

\* A shift applied whatever the span
svpwm_shift_always(voltg_full_scale, c) ==
    << c.v[1] + c.voltg_offset, c.v[2] + c.voltg_offset, c.v[3] + c.voltg_offset >>

\* The second branch: the shift, skipped when the span is zero
svpwm_shift(voltg_full_scale, c) ==
    IF voltg_full_scale # 0
    THEN << c.v[1] + c.voltg_offset, c.v[2] + c.voltg_offset,
            c.v[3] + c.voltg_offset >>
    ELSE c.v

\* (voltg_available << 15) / voltg_full_scale divides by zero when the span
\* is zero and the supply negative
math_svpwm_panics(voltg_sin, voltg_cos, voltg_available) ==
    LET v == inverse_clarke_transform(voltg_sin, voltg_cos)
    IN  Max3(v) - Min3(v) = 0 /\ voltg_available < 0

math_svpwm(voltg_sin, voltg_cos, voltg_available) ==
    LET v == inverse_clarke_transform(voltg_sin, voltg_cos)
        r == svpwm_shift(Max3(v) - Min3(v), svpwm_constrain(v, voltg_available))
    IN  << AsI16(r[1]), AsI16(r[2]), AsI16(r[3]) >>

\* ---- InputsDump (inputs_dump.rs) ------------------------------------------
\* A flags word is the set of its pending field bits and its LOCK bit
FieldBits == {"SUPPLY", "TEMP", "CURRENT", "ANGLE"}
\* DataInputs::default(); currnt_adc stands for the whole array
DataInputs_default ==
    [ SUPPLY |-> 0, TEMP |-> 0, CURRENT |-> 0, ANGLE |-> 0 ]

InputsDump_new(MANDATORY_FIELDS) ==
    [ buffers    |-> << DataInputs_default, DataInputs_default >>,
      idx2update |-> 0,
      flags      |-> << [ pending |-> MANDATORY_FIELDS, lock |-> FALSE ],
                        [ pending |-> {}, lock |-> FALSE ] >>,
      iter       |-> 0,
      prev_iter  |-> 0,
      mandatory  |-> MANDATORY_FIELDS ]

\* Buffer idx (0 or 1) is element idx + 1 of buffers and flags
InputsDump_is_ready(d, idx) ==
    d.flags[idx + 1].pending = {} /\ ~d.flags[idx + 1].lock

get_opposite(idx) == 1 - idx

\* check_fill: [d, switched]
check_fill(d, idx) ==
    IF InputsDump_is_ready(d, 0) /\ InputsDump_is_ready(d, 1)
    THEN [ switched |-> TRUE,
           d |-> [ d EXCEPT !.flags[get_opposite(idx) + 1] =
                               [ pending |-> d.mandatory, lock |-> FALSE ],
                            !.idx2update = get_opposite(idx),
                            !.iter = d.iter + 1 ] ]
    ELSE [ switched |-> FALSE, d |-> d ]

\* set_supply_adc, set_temper_adc, set_current_adc, set_angle_raw: the
\* four setters differ in the field and its bit only
InputsDump_set(d, field, value) ==
    LET idx == d.idx2update
        d1  == [ d EXCEPT !.buffers[idx + 1][field] = value,
                          !.flags[idx + 1].pending = @ \ {field} ]
    IN  check_fill(d1, idx)

InputsDump_is_updated(d) == d.iter # d.prev_iter

SupplyVoltage_new(k_filter, max_sup_voltage) ==
    [ max_voltage_mv |-> max_sup_voltage,
      filter         |-> FilterLPF_new(0, k_filter),
      voltage_norm   |-> 0,
      voltage_mv     |-> 0 ]

SupplyVoltage_tick(sv, vsup_adc) ==
    LET f    == FilterLPF_tick(sv.filter, vsup_adc)
        norm == AsI16(Shr(f.output, 1))
    IN  [ sv EXCEPT !.filter = f,
                    !.voltage_norm = norm,
                    !.voltage_mv = norm_to_value(norm, sv.max_voltage_mv) ]

\* a.wrapping_add(d) on i32, for an i32 a and a d of at most 16 bits
wrapping_add_i32(a, d) ==
    IF d > 0 /\ a > I32_MAX - d
    THEN I32_MIN + ((d - (I32_MAX - a)) - 1)
    ELSE IF d < 0 /\ a < I32_MIN - d
    THEN (I32_MAX - ((I32_MIN - d) - a)) + 1
    ELSE a + d

\* Variant: the difference is not read as a signed number
Position_tick_unsigned(pos, input_pos) ==
    wrapping_add_i32(pos, AsU16(input_pos - AsU16(pos)))

\* Position::tick: add the signed 16-bit difference to the 32-bit position
Position_tick(pos, input_pos) ==
    wrapping_add_i32(pos, AsI16(input_pos - AsU16(pos)))

\* `(self.position >> 16) as i16`
Position_rotations(pos) == AsI16(Shr(pos, 16))

\* EncoderPosition (encoder_position/mod.rs) at rest at the position pos
EncoderPosition_at(pos, freq, alpha) ==
    [ position        |-> pos,
      filter          |-> FilterLPF_new(AsU16(pos), alpha),
      speed_estimator |-> SpeedEstimator_new(pos, freq) ]

\* EncoderPosition::new(freq)
EncoderPosition_new(freq) == EncoderPosition_at(0, freq, 0)

\* EncoderPosition::tick: [e, panic]; the position is updated with the
\* statements of Position::tick on the filter's output
EncoderPosition_tick(e, input_pos, wrap) ==
    LET filter   == FilterLPF_tick(e.filter, input_pos)
        position == Position_tick(e.position, filter.output)
        sp       == SpeedEstimator_tick(e.speed_estimator, "wrapping", position, wrap)
    IN  [ panic |-> sp.panic,
          e     |-> [ e EXCEPT !.filter = filter,
                               !.position = position,
                               !.speed_estimator = sp.se ] ]

Position_angle(pos) == AsU16(pos)

\* ------------------------------------------------------------------------
\* DriverPWM  (motor_driver/driver_pwm/mod.rs, sel_motor.rs, sel_phase.rs)
\* ------------------------------------------------------------------------
\* PhasePattern discriminants
PhasePattern == [ ABCD |-> 228, ACDB |-> 120, ADBC |-> 156, DCAB |-> 75 ]

\* Indices whose fourth entry repeats the third
PhaseSelector_new_short(mode) ==
    [ mode |-> mode,
      idxs |-> << Shr(mode, 0) % 4, Shr(mode, 2) % 4,
                  Shr(mode, 4) % 4, Shr(mode, 4) % 4 >> ]

PhaseSelector_new(mode) ==
    [ mode |-> mode,
      idxs |-> << Shr(mode, 0) % 4, Shr(mode, 2) % 4,
                  Shr(mode, 4) % 4, Shr(mode, 6) % 4 >> ]

\* voltages and the result are 4-tuples; index i of the source is i + 1
PhaseSelector_tick(ps, voltages) ==
    << voltages[ps.idxs[1] + 1], voltages[ps.idxs[2] + 1],
       voltages[ps.idxs[3] + 1], voltages[ps.idxs[4] + 1] >>

DISBL == I16_MIN

\* MotorSelector::tick for the modes whose arithmetic is in coil.rs
MotorSelector_tick(mode, voltg_ab) ==
    CASE mode = "UNDEFINED" -> << 0, 0, 0, 0 >>
      [] mode = "DC" ->
           LET c == center(voltg_ab[1]) IN << c[1], c[2], DISBL, DISBL >>
      [] mode = "STEP" ->
           LET c1 == center(voltg_ab[1])
               c2 == center(voltg_ab[2])
           IN  << c1[1], c1[2], c2[1], c2[2] >>

DriverPWM_new(motor, control_mode) ==
    [ control_mode |-> control_mode,
      status       |-> "Ready",
      motor_type   |-> motor.pole_type,
      phase_sel    |-> PhaseSelector_new(motor.connection),
      ch_1234      |-> << 0, 0, 0, 0 >>,
      motor        |-> motor ]

\* normal_run divides by the supply in CurrentAB mode
normal_run_panics(d, supply) == d.control_mode = "CurrentAB" /\ supply = 0

\* The amplitude normal_run scales the sine and cosine with in CurrentAB
\* mode (supply # 0): bounded from above, then cast to i16
normal_run_scale(d, ab, supply) ==
    LET targ_voltage      == TruncDiv(ab[2] * d.motor.resistance, 1000)
        norm_targ_voltage == value_to_norm(targ_voltage, 69000)
        scale0            == TruncDiv(norm_targ_voltage * (2 ^ 15), supply)
    IN  AsI16(IF scale0 > I16_MAX THEN I16_MAX ELSE scale0)

normal_run(d, ab, supply) ==
    IF d.control_mode = "CurrentAB"
    THEN LET sincos_ab         == angle2sincos(ab[1])
             targ_voltage      == TruncDiv(ab[2] * d.motor.resistance, 1000)
             norm_targ_voltage == value_to_norm(targ_voltage, 69000)
             scale0            == TruncDiv(norm_targ_voltage * (2 ^ 15), supply)
             scale             == IF scale0 > I16_MAX THEN I16_MAX ELSE scale0
         IN  scale_sincos(sincos_ab, AsI16(scale))
    ELSE ab

\* tick_control: the driver after the call (its return value is ch_1234)
tick_control(d, ab_inpt, supply) ==
    LET voltage_ab0    == IF d.status = "Ready" THEN ab_inpt ELSE << 0, 0 >>
        voltage_ab     == normal_run(d, voltage_ab0, supply)
        motor_voltages == MotorSelector_tick(d.motor_type, voltage_ab)
    IN  [ d EXCEPT !.ch_1234 = PhaseSelector_tick(d.phase_sel, motor_voltages) ]

\* ------------------------------------------------------------------------
\* MotorController  (tunepulse_algo/src/lib.rs) and its environment
\* ------------------------------------------------------------------------
VARIABLES
    driver_status,     \* MotorController.driver_status
    angle_el,          \* MotorController.angle_el
    amplitude,         \* MotorController.amplitude
    position,          \* MotorController.position (Position.position)
    angle_calibrator,  \* MotorController.angle_calibrator
    filter,            \* MotorController.filter
    supply,            \* MotorController.supply
    ticker,            \* MotorController.ticker
    sup_check,         \* MotorController.sup_check
    motor,             \* MotorController.motor (DriverPWM)
    panicked,          \* a tick panicked: the firmware has halted
    beat,              \* parity of the number of tick calls made (the loop timer)
    shaft,             \* environment: encoder counts of the rotor, unwrapped
    scn,               \* environment: the motor/encoder/supply being driven
    stable,            \* what run_sampling_cycle returned in the last tick: <<v>>, or <<>> if not called
    n_samples,         \* Sampling-state calls made in the current sampling cycle
    sum_samples,       \* sum of the positions those calls were given
    checked,           \* result of the table validation: "none", "pass", "fail"
    idle,              \* ticks taken since the calibrator reached Done or Error
    table,             \* a CalibrationTable driven directly through its methods
    op,                \* the call last made: [name, idx, val]
    ret,               \* the value that call returned ("none": nothing returned)
    nops,              \* number of table calls made so far
    ramp,              \* the table run in progress: [pc, div, ...], or "none"
    unit               \* a component driven directly through its methods, or "none"

vars == << driver_status, angle_el, amplitude, position, angle_calibrator,
           filter, supply, ticker, sup_check, motor, panicked, beat, shaft, scn,
           stable, n_samples, sum_samples, checked, idle, table, op, ret, nops, ramp, unit >>

\* The controller, its environment and the observations of its run
ctlvars == << driver_status, angle_el, amplitude, position, angle_calibrator,
             filter, supply, ticker, sup_check, motor, panicked, beat, shaft, scn,
             stable, n_samples, sum_samples, checked, idle >>

\* What the calls made directly on a CalibrationTable leave alone
mcvars == << ctlvars, unit >>

Call(name, idx, val) == [ name |-> name, idx |-> idx, val |-> val ]

\* Arguments of MotorController::new
Config == [ motor_type      |-> "STEP",
            connection      |-> PhasePattern.ABCD,
            frequency       |-> 20000,
            max_sup_voltage |-> 69000,
            resistance      |-> 2000 ]

\* Commanded currents (mA) offered on each tick
Currents == {0, 1000}

\* The rotor follows the commanded electrical angle with the ratio num/den
\* encoder counts per angle count, up to an end stop at +-stop counts; the
\* encoder reads `bump` counts high while the rotor is within [lo, hi]; the
\* supply ADC reads adc throughout.
\* Linear: no end stop within reach, no bump
Linear(num, den) ==
    [ num |-> num, den |-> den, stop |-> 1000000, lo |-> 0, hi |-> -1, bump |-> 0,
      adc |-> 40000 ]

LinearScenarios == { Linear(k, 1) : k \in {1, 2, 5} } \cup { Linear(-1, 1), Linear(1, 2) }

FaultScenarios ==
    { Linear(0, 1),
      [ Linear(1, 1) EXCEPT !.stop = 30000 ],
      [ Linear(1, 1) EXCEPT !.stop = 100000 ],
      [ Linear(1, 2) EXCEPT !.lo = 50000, !.hi = 55000, !.bump = 9000 ],
      [ Linear(1, 1) EXCEPT !.adc = 0 ] }

Scenarios == LinearScenarios \cup FaultScenarios

Clamp(x, lo, hi) == IF x < lo THEN lo ELSE IF x > hi THEN hi ELSE x

\* The raw angle the encoder reports for a rotor position
encoder_raw(sc, sh) ==
    AsU16(sh + (IF sc.lo <= sh /\ sh <= sc.hi THEN sc.bump ELSE 0))

\* The rotor after the commanded electrical angle went from a0 to a1
shaft_next(sc, sh, a0, a1) ==
    Clamp(sh + TruncDiv(sc.num * AsI16(a1 - a0), sc.den), -sc.stop, sc.stop)

\* The controller after MotorController::new, and the rotor at rest
ControllerInit(scenarios) ==
    /\ driver_status = "Calibrating"
    /\ angle_el = 0
    /\ amplitude = 0
    /\ position = 0
    /\ angle_calibrator = AngleCalibrator_new(Config.frequency)
    /\ filter = FilterLPF_new(0, 0)
    /\ supply = SupplyVoltage_new(200, Config.max_sup_voltage)
    /\ ticker = 0
    /\ sup_check = 100
    /\ motor = DriverPWM_new([ resistance |-> Config.resistance,
                               pole_type  |-> Config.motor_type,
                               connection |-> Config.connection ], "CurrentAB")
    /\ panicked = FALSE
    /\ beat = 0
    /\ shaft = 0
    /\ scn \in scenarios
    /\ stable = << >>
    /\ n_samples = 0
    /\ sum_samples = 0
    /\ checked = "none"
    /\ idle = 0

InitWith(scenarios) ==
    /\ ControllerInit(scenarios)
    /\ table = CalibrationTable_new
    /\ op = Call("new", 0, 0)
    /\ ret = "none"
    /\ nops = 0
    /\ ramp = "none"
    /\ unit = "none"

Init == InitWith(Scenarios)

\* The model follows a run while its counters are within the bounds
WithinBounds ==
    /\ idle < MaxIdle
    /\ angle_calibrator.calibration_stage \in {"FullRotationPositive", "FullRotationNegative"}
         => Abs(angle_calibrator.cal_idx) < MaxCalIdx

\* The status match of MotorController::tick, before the PWM stage
TickStatus(pos1, amp, wrap) ==
    CASE driver_status = "Ready" ->
           LET f == FilterLPF_tick(filter, Position_angle(pos1))
           IN  [ status |-> "Ready", angle_el |-> get_correction(angle_calibrator, f.output)[2],
                 amplitude |-> amp, cal |-> angle_calibrator, filter |-> f,
                 ticker |-> ticker + 1, sup_check |-> sup_check,
                 stable |-> << >>, checked |-> "none", panic |-> FALSE ]
      [] driver_status = "Error" ->
           [ status |-> "Error", angle_el |-> angle_el,
             amplitude |-> 0, cal |-> angle_calibrator, filter |-> filter,
             ticker |-> ticker, sup_check |-> sup_check,
             stable |-> << >>, checked |-> "none", panic |-> FALSE ]
      [] driver_status = "Calibrating" ->
           LET r == AngleCalibrator_tick(angle_calibrator, pos1, wrap)
           IN  [ status |-> IF is_ready(r.c) THEN "Ready" ELSE "Calibrating",
                 angle_el |-> r.ret,
                 amplitude |-> amp, cal |-> r.c, filter |-> filter,
                 ticker |-> ticker,
                 sup_check |-> IF sup_check > 0 THEN sup_check - 1 ELSE sup_check,
                 stable |-> << r.stable >>, checked |-> r.checked, panic |-> r.panic ]

\* One call of MotorController::tick(current, input), followed by the
\* rotor's response to the new commanded angle
Tick(current, wrap) ==
    /\ ~panicked
    /\ WithinBounds
    /\ beat' = 1 - beat
    /\ \E pos1 \in { Position_tick(position, encoder_raw(scn, shaft)) },
          sup1 \in { SupplyVoltage_tick(supply, scn.adc) } :
        \E r \in { TickStatus(pos1, AsI16(current), wrap) } :
           IF r.panic \/ normal_run_panics(motor, sup1.voltage_norm)
           THEN /\ panicked' = TRUE
                /\ UNCHANGED << driver_status, angle_el, amplitude, position,
                                angle_calibrator, filter, supply, ticker, sup_check,
                                motor, shaft, scn, stable, n_samples, sum_samples,
                                checked, idle, table, op, ret, nops, ramp, unit >>
           ELSE /\ position' = pos1
                /\ supply' = sup1
                /\ driver_status' = r.status
                /\ angle_el' = r.angle_el
                /\ amplitude' = r.amplitude
                /\ angle_calibrator' = r.cal
                /\ filter' = r.filter
                /\ ticker' = r.ticker
                /\ sup_check' = r.sup_check
                /\ motor' = tick_control(motor, << AsI16(r.angle_el), r.amplitude >>,
                                         sup1.voltage_norm)
                /\ shaft' = shaft_next(scn, shaft, angle_el, r.angle_el)
                /\ stable' = r.stable
                /\ n_samples' = IF driver_status # "Calibrating" THEN n_samples
                                ELSE IF angle_calibrator.cal_cycle_stage = "Sampling"
                                THEN n_samples + 1 ELSE 0
                /\ sum_samples' = IF driver_status # "Calibrating" THEN sum_samples
                                  ELSE IF angle_calibrator.cal_cycle_stage = "Sampling"
                                  THEN sum_samples + pos1 ELSE 0
                /\ checked' = IF r.checked # "none" THEN r.checked ELSE checked
                /\ idle' = IF angle_calibrator.calibration_stage \in {"Done", "Error"}
                           THEN idle + 1 ELSE idle
                /\ op' = Call("tick", 0, current)
                /\ UNCHANGED << panicked, scn, table, ret, nops, ramp, unit >>

\* The overflow answer matters only where cal_idx would go below zero
TickAny ==
    \E current \in Currents :
      \E wrap \in (IF angle_calibrator.calibration_stage = "FullRotationNegative"
                      /\ angle_calibrator.cal_idx = 0
                   THEN BOOLEAN ELSE {FALSE}) :
        Tick(current, wrap)

Next == TickAny

Spec == Init /\ [][Next]_vars

\* tick is called from the periodic control-loop interrupt: while the
\* firmware has not halted, another tick always comes
\* (stated on the timer's beat, which every tick call flips)
Beat == ~panicked /\ WithinBounds /\ beat' = 1 - beat

\* Every encoder behaviour of the scenarios, on a healthy supply
EncoderScenarios == { sc \in Scenarios : sc.adc # 0 }

EncoderSpec == InitWith(EncoderScenarios) /\ [][Next]_vars /\ WF_beat(Beat)

\* Largest ratio k of the linear encoders position = k * electrical angle
MaxPoles == 5
PoleScenarios == { Linear(k, 1) : k \in 1..MaxPoles }

LinearSpec == InitWith(PoleScenarios) /\ [][Next]_vars /\ WF_beat(Beat)

\* ------------------------------------------------------------------------
\* CalibrationTable driven directly: any bounded sequence of reset,
\* fill_first and fill_second calls on a new table
\* ------------------------------------------------------------------------
\* Number of table calls in a run
MaxOps == 4
\* Sample values offered to the fill calls
TableVals == {100, 40000}
\* Indices offered to the fill calls: in bounds, and beyond the last entry
TableIdxs == 0..(N + 1)

TableInit ==
    /\ InitWith({Linear(1, 1)})

TReset(div) ==
    /\ nops < MaxOps
    /\ table' = reset(table, div)
    /\ op' = Call("reset", 0, div)
    /\ ret' = "none"
    /\ nops' = nops + 1
    /\ UNCHANGED << mcvars, ramp >>

TFillFirst(idx, val) ==
    /\ nops < MaxOps
    /\ LET r == fill_first(table, idx, val)
       IN  table' = r.t /\ ret' = r.ret
    /\ op' = Call("fill_first", idx, val)
    /\ nops' = nops + 1
    /\ UNCHANGED << mcvars, ramp >>

TFillSecond(idx, val) ==
    /\ nops < MaxOps
    /\ LET r == fill_second(table, idx, val)
       IN  table' = r.t /\ ret' = r.ret
    /\ op' = Call("fill_second", idx, val)
    /\ nops' = nops + 1
    /\ UNCHANGED << mcvars, ramp >>

TableNext ==
    \/ \E div \in {1, 4} : TReset(div)
    \/ \E idx \in TableIdxs, val \in TableVals : TFillFirst(idx, val)
    \/ \E idx \in TableIdxs, val \in TableVals : TFillSecond(idx, val)

TableSpec == TableInit /\ [][TableNext]_vars

\* ------------------------------------------------------------------------
\* The ramp run on a CalibrationTable: reset, fill_first of every index with
\* the ramp, fill_second of every index with the same values (going up, or
\* going down as the calibrator's backward pass does), check, then
\* correct_pos of stored samples
\* ------------------------------------------------------------------------
RampVal(i) == (i * 65536) \div N

RampPlans == { [ pc |-> "reset", div |-> d, order |-> o ] :
                 d \in {1, 2, 4}, o \in {"up", "down"} }

RampInit ==
    /\ ControllerInit({Linear(1, 1)})
    /\ table = CalibrationTable_new
    /\ op = Call("new", 0, 0)
    /\ ret = "none"
    /\ nops = 0
    /\ ramp \in RampPlans
    /\ unit = "none"

RampReset ==
    /\ ramp.pc = "reset"
    /\ table' = reset(table, ramp.div)
    /\ op' = Call("reset", 0, ramp.div)
    /\ ret' = "none"
    /\ nops' = 0
    /\ ramp' = [ ramp EXCEPT !.pc = "first" ]
    /\ UNCHANGED mcvars

RampFillFirst ==
    /\ ramp.pc = "first"
    /\ LET r == fill_first(table, nops, RampVal(nops))
       IN  table' = r.t /\ ret' = r.ret
    /\ op' = Call("fill_first", nops, RampVal(nops))
    /\ nops' = IF nops + 1 = N THEN 0 ELSE nops + 1
    /\ ramp' = IF nops + 1 = N THEN [ ramp EXCEPT !.pc = "second" ] ELSE ramp
    /\ UNCHANGED mcvars

RampFillSecond ==
    /\ ramp.pc = "second"
    /\ LET idx == IF ramp.order = "up" THEN nops ELSE (N - 1) - nops
           r   == fill_second(table, idx, RampVal(idx))
       IN  /\ table' = r.t /\ ret' = r.ret
           /\ op' = Call("fill_second", idx, RampVal(idx))
    /\ nops' = IF nops + 1 = N THEN 0 ELSE nops + 1
    /\ ramp' = IF nops + 1 = N THEN [ ramp EXCEPT !.pc = "check" ] ELSE ramp
    /\ UNCHANGED mcvars

RampCheck ==
    /\ ramp.pc = "check"
    /\ LET r == check(table)
       IN  table' = r.t /\ ret' = r.ret
    /\ op' = Call("check", 0, 0)
    /\ ramp' = [ ramp EXCEPT !.pc = "correct" ]
    /\ UNCHANGED << mcvars, nops >>

\* correct_pos of the sample stored at index j
RampCorrect(j) ==
    /\ ramp.pc = "correct"
    /\ ret' = correct_pos(table, table.cal_table[j])
    /\ op' = Call("correct_pos", j, table.cal_table[j])
    /\ UNCHANGED << mcvars, table, nops, ramp >>

RampNext ==
    \/ RampReset
    \/ RampFillFirst
    \/ RampFillSecond
    \/ RampCheck
    \/ \E j \in 0..(N - 1) : RampCorrect(j)

RampSpec == RampInit /\ [][RampNext]_vars

\* ------------------------------------------------------------------------
\* A collected table put to check(): reset, fill_first of indices 0..size-1,
\* fill_second of the same indices going down (the calibrator's backward
\* pass), then check
\* ------------------------------------------------------------------------
\* Largest number of samples collected
MaxFill == 3
\* Sample values offered to the two passes
CheckVals == {0, 100, 40000}

CheckPlans == { [ pc |-> "reset", div |-> d, size |-> n ] :
                  d \in {1, 4}, n \in 1..MaxFill }

CheckInit ==
    /\ ControllerInit({Linear(1, 1)})
    /\ table = CalibrationTable_new
    /\ op = Call("new", 0, 0)
    /\ ret = "none"
    /\ nops = 0
    /\ ramp \in CheckPlans
    /\ unit = "none"

CkReset ==
    /\ ramp.pc = "reset"
    /\ table' = reset(table, ramp.div)
    /\ op' = Call("reset", 0, ramp.div)
    /\ ret' = "none"
    /\ nops' = 0
    /\ ramp' = [ ramp EXCEPT !.pc = "first" ]
    /\ UNCHANGED mcvars

CkFillFirst(val) ==
    /\ ramp.pc = "first"
    /\ LET r == fill_first(table, nops, val)
       IN  table' = r.t /\ ret' = r.ret
    /\ op' = Call("fill_first", nops, val)
    /\ nops' = IF nops + 1 = ramp.size THEN 0 ELSE nops + 1
    /\ ramp' = IF nops + 1 = ramp.size THEN [ ramp EXCEPT !.pc = "second" ] ELSE ramp
    /\ UNCHANGED mcvars

CkFillSecond(val) ==
    /\ ramp.pc = "second"
    /\ LET idx == (ramp.size - 1) - nops
           r   == fill_second(table, idx, val)
       IN  /\ table' = r.t /\ ret' = r.ret
           /\ op' = Call("fill_second", idx, val)
    /\ nops' = IF nops + 1 = ramp.size THEN 0 ELSE nops + 1
    /\ ramp' = IF nops + 1 = ramp.size THEN [ ramp EXCEPT !.pc = "check" ] ELSE ramp
    /\ UNCHANGED mcvars

CkCheck ==
    /\ ramp.pc = "check"
    /\ LET r == check(table)
       IN  table' = r.t /\ ret' = r.ret
    /\ op' = Call("check", 0, 0)
    /\ ramp' = [ ramp EXCEPT !.pc = "done" ]
    /\ UNCHANGED << mcvars, nops >>

CheckNext ==
    \/ CkReset
    \/ \E val \in CheckVals : CkFillFirst(val)
    \/ \E val \in CheckVals : CkFillSecond(val)
    \/ CkCheck

CheckSpec == CheckInit /\ [][CheckNext]_vars

\* ------------------------------------------------------------------------
\* A wrap-aware filter driven directly: a FilterLPF ticked with tick_oflw
\* or an AngleFilter, its alpha set at will between ticks.  unit.before is
\* the filter's output before the latest call.
\* ------------------------------------------------------------------------
\* Number of calls made on a component in a run
MaxCalls == 3
\* Raw angles offered: both ends of the range, the middle, points in between
FilterInputs == {0, 5, 20000, 32768, 40000, 65530, 65535}
FilterAlphas == {0, 200, 255}

FilterInit ==
    /\ ControllerInit({Linear(1, 1)})
    /\ table = CalibrationTable_new
    /\ op = Call("new", 0, 0)
    /\ ret = "none"
    /\ nops = 0
    /\ ramp = "none"
    /\ \E a0 \in {0, 40000}, alpha \in FilterAlphas :
         \/ unit = [ kind |-> "FilterLPF", f |-> FilterLPF_new(a0, alpha),
                     before |-> a0 ]
         \/ unit = [ kind |-> "AngleFilter", f |-> AngleFilter_new(a0, alpha),
                     before |-> a0 ]

FilterTick(input) ==
    /\ nops < MaxCalls
    /\ unit' = [ unit EXCEPT !.f = IF unit.kind = "FilterLPF"
                                   THEN FilterLPF_tick_oflw(unit.f, input)
                                   ELSE AngleFilter_tick(unit.f, input),
                              !.before = unit.f.output ]
    /\ op' = Call("tick", 0, input)
    /\ ret' = unit'.f.output
    /\ nops' = nops + 1
    /\ UNCHANGED << ctlvars, table, ramp >>

\* set_alpha of FilterLPF; alpha is a public field of AngleFilter
FilterSetAlpha(alpha) ==
    /\ nops < MaxCalls
    /\ unit' = [ unit EXCEPT !.f.alpha = alpha, !.before = unit.f.output ]
    /\ op' = Call("set_alpha", 0, alpha)
    /\ ret' = "none"
    /\ nops' = nops + 1
    /\ UNCHANGED << ctlvars, table, ramp >>

FilterNext ==
    \/ \E input \in FilterInputs : FilterTick(input)
    \/ \E alpha \in FilterAlphas : FilterSetAlpha(alpha)

FilterSpec == FilterInit /\ [][FilterNext]_vars

\* ------------------------------------------------------------------------
\* A SpeedEstimator of either crate ticked directly.  unit.hist is the
\* list of positions passed so far, the initial position first.
\* ------------------------------------------------------------------------
MaxSpeedTicks == 9
SpeedPositions == {-7, 0, 200000}
SpeedFreqs == {1, 20000}

SpeedInit ==
    /\ ControllerInit({Linear(1, 1)})
    /\ table = CalibrationTable_new
    /\ op = Call("new", 0, 0)
    /\ ret = 0
    /\ nops = 0
    /\ ramp = "none"
    /\ \E kind \in {"plain", "wrapping"}, freq \in SpeedFreqs :
         unit = [ kind |-> kind, se |-> SpeedEstimator_new(0, freq),
                  hist |-> << 0 >>, panicked |-> FALSE ]

SpeedTick(p, wrap) ==
    /\ nops < MaxSpeedTicks
    /\ ~unit.panicked
    /\ \E r \in { SpeedEstimator_tick(unit.se, unit.kind, p, wrap) } :
         /\ unit' = [ unit EXCEPT !.se = r.se, !.panicked = r.panic,
                                  !.hist = Append(unit.hist, p) ]
         /\ ret' = r.se.speed
    /\ op' = Call("tick", 0, p)
    /\ nops' = nops + 1
    /\ UNCHANGED << ctlvars, table, ramp >>

SpeedNext == \E p \in SpeedPositions, wrap \in BOOLEAN : SpeedTick(p, wrap)

SpeedSpec == SpeedInit /\ [][SpeedNext]_vars

\* ------------------------------------------------------------------------
\* An EncoderPositionHandler without filtering (alpha = 0) ticked with its
\* initial angle and then with angles that each lie less than half the
\* range ahead of the one before.  unit.last is the angle passed by the
\* previous tick.
\* ------------------------------------------------------------------------
MaxTrackTicks == 4
TrackAngles == {0, 40000, 65530}
\* Steps ahead: below a quarter of the range, and between a quarter and a half
TrackSteps == {1, 11, 16383, 16384, 30000, 32767}
TrackFreq == 1000

TrackInit ==
    /\ ControllerInit({Linear(1, 1)})
    /\ table = CalibrationTable_new
    /\ op = Call("new", 0, 0)
    /\ ret = "none"
    /\ nops = 0
    /\ ramp = "none"
    /\ \E a0 \in TrackAngles :
         unit = [ h |-> EncoderPositionHandler_new(a0, TrackFreq, 0),
                  last |-> a0, panicked |-> FALSE ]

TrackTick(step, wrap) ==
    /\ nops < MaxTrackTicks
    /\ ~unit.panicked
    /\ \E input_pos \in { IF nops = 0 THEN unit.last
                          ELSE (unit.last + step) % 65536 } :
         \E r \in { EncoderPositionHandler_tick(unit.h, input_pos, wrap) } :
            /\ unit' = [ h |-> r.h, last |-> input_pos, panicked |-> r.panic ]
            /\ op' = Call("tick", 0, input_pos)
    /\ ret' = "none"
    /\ nops' = nops + 1
    /\ UNCHANGED << ctlvars, table, ramp >>

TrackNext == \E step \in TrackSteps, wrap \in BOOLEAN : TrackTick(step, wrap)

TrackSpec == TrackInit /\ [][TrackNext]_vars

\* ------------------------------------------------------------------------
\* A PID built with new() and ticked directly.  unit.gains are the
\* arguments of new(); unit.error, unit.feedfwd and unit.limit those of the
\* latest tick.
\* ------------------------------------------------------------------------
MaxPidTicks == 3
\* << kp, ki, kd, kff >>: 100 alone, 10000 alone, beyond the range both
\* ways, and mixed
PidGains == { << 100, 0, 0, 0 >>, << 10000, 0, 0, 0 >>,
              << 20000, 10000, 10000, 10000 >>,
              << -20000, -10000, -10000, -10000 >>,
              << 50, 100, 100, 100 >>, << 0, 100, 0, 0 >> }
PidErrors == {I16_MIN, -100, 1000}
PidFeedfwds == {0, I16_MAX}
PidLimits == {0, 100, 10000}

PidInit ==
    /\ ControllerInit({Linear(1, 1)})
    /\ table = CalibrationTable_new
    /\ op = Call("new", 0, 0)
    /\ ret = "none"
    /\ nops = 0
    /\ ramp = "none"
    /\ \E g \in PidGains :
         unit = [ pid |-> PID_new(g[1], g[2], g[3], g[4]), gains |-> g,
                  error |-> 0, feedfwd |-> 0, limit |-> 0 ]

PidTick(error, feedfwd, limit) ==
    /\ nops < MaxPidTicks
    /\ unit' = [ unit EXCEPT !.pid = PID_tick(unit.pid, error, feedfwd, limit),
                             !.error = error, !.feedfwd = feedfwd,
                             !.limit = limit ]
    /\ op' = Call("tick", 0, error)
    /\ ret' = unit'.pid.output
    /\ nops' = nops + 1
    /\ UNCHANGED << ctlvars, table, ramp >>

PidNext ==
    \E error \in PidErrors, feedfwd \in PidFeedfwds, limit \in PidLimits :
        PidTick(error, feedfwd, limit)

PidSpec == PidInit /\ [][PidNext]_vars

\* ------------------------------------------------------------------------
\* The associated functions of MotorSelector, each called once on
\* arguments of its domain.  unit holds the function called and its
\* arguments, ret what it returned.
\* ------------------------------------------------------------------------
CoilRefs == {I16_MIN, I16_MIN + 1, -20001, -2, -1, 0, 1, 2, 3, 20000, I16_MAX}
CoilFns == {"math_coil", "math_coil_rs", "center"}
SvpwmVolts == {I16_MIN, I16_MIN + 1, -20000, -5000, -2, -1, 0, 1, 2, 5000,
               20000, I16_MAX}
SvpwmSupplies == {-1, 0, 1, 2, 1000, 20000, I16_MAX}

PhasePatterns == {"ABCD", "ACDB", "ADBC", "DCAB"}
PhaseVolts == {I16_MIN, -1, 0, 7}

SelectorInit ==
    /\ ControllerInit({Linear(1, 1)})
    /\ table = CalibrationTable_new
    /\ op = Call("new", 0, 0)
    /\ ret = "none"
    /\ nops = 0
    /\ ramp = "none"
    /\ unit = [ fn |-> "none" ]

MathCoil(fn, voltg_ref) ==
    /\ nops = 0
    /\ unit' = [ fn |-> fn, voltg_ref |-> voltg_ref ]
    /\ ret' = CASE fn = "math_coil"    -> math_coil(voltg_ref)
                [] fn = "math_coil_rs" -> math_coil_rs(voltg_ref)
                [] OTHER               -> center(voltg_ref)
    /\ op' = Call(fn, 0, voltg_ref)
    /\ nops' = 1
    /\ UNCHANGED << ctlvars, table, ramp >>

MathSvpwm(voltg_sin, voltg_cos, voltg_available) ==
    /\ nops = 0
    /\ unit' = [ fn |-> "math_svpwm", voltg_sin |-> voltg_sin,
                 voltg_cos |-> voltg_cos, voltg_available |-> voltg_available ]
    /\ ret' = IF math_svpwm_panics(voltg_sin, voltg_cos, voltg_available)
              THEN "panic"
              ELSE math_svpwm(voltg_sin, voltg_cos, voltg_available)
    /\ op' = Call("math_svpwm", 0, voltg_sin)
    /\ nops' = 1
    /\ UNCHANGED << ctlvars, table, ramp >>

\* PhaseSelector::new(pattern).tick(voltages)
PhaseTick(pattern, voltages) ==
    /\ nops = 0
    /\ unit' = [ fn |-> "PhaseSelector_tick", pattern |-> pattern,
                 voltages |-> voltages ]
    /\ ret' = PhaseSelector_tick(PhaseSelector_new(PhasePattern[pattern]), voltages)
    /\ op' = Call("PhaseSelector_tick", 0, PhasePattern[pattern])
    /\ nops' = 1
    /\ UNCHANGED << ctlvars, table, ramp >>

\* DriverPWM::new(motor, control_mode).normal_run((angle, current), supply)
RunAngles == {0, 8192, 16384, -16384, I16_MIN}
RunCurrents == {I16_MIN, -3000, -1, 0, 1, 3000, I16_MAX}
RunSupplies == {0, 1, 100, 16000, I16_MAX}

NormalRun(control_mode, angle, current, vsup) ==
    /\ nops = 0
    /\ unit' = [ fn |-> "normal_run", control_mode |-> control_mode,
                 angle |-> angle, current |-> current, supply |-> vsup ]
    /\ \E d \in { DriverPWM_new([ resistance |-> Config.resistance,
                                   pole_type  |-> Config.motor_type,
                                   connection |-> Config.connection ],
                                 control_mode) } :
         ret' = IF normal_run_panics(d, vsup)
                THEN [ panic |-> TRUE, scale |-> 0, out |-> << 0, 0 >> ]
                ELSE [ panic |-> FALSE,
                       scale |-> IF control_mode = "CurrentAB"
                                 THEN normal_run_scale(d, << angle, current >>, vsup)
                                 ELSE 0,
                       out   |-> normal_run(d, << angle, current >>, vsup) ]
    /\ op' = Call("normal_run", 0, current)
    /\ nops' = 1
    /\ UNCHANGED << ctlvars, table, ramp >>

SelectorNext ==
    \/ \E control_mode \in {"CurrentAB", "VoltageAB"}, angle \in RunAngles,
          current \in RunCurrents, vsup \in RunSupplies :
            NormalRun(control_mode, angle, current, vsup)
    \/ \E fn \in CoilFns, voltg_ref \in CoilRefs : MathCoil(fn, voltg_ref)
    \/ \E pattern \in PhasePatterns,
          voltages \in PhaseVolts \X PhaseVolts \X PhaseVolts \X PhaseVolts :
            PhaseTick(pattern, voltages)
    \/ \E voltg_sin \in SvpwmVolts, voltg_cos \in SvpwmVolts,
          voltg_available \in SvpwmSupplies :
            MathSvpwm(voltg_sin, voltg_cos, voltg_available)

SelectorSpec == SelectorInit /\ [][SelectorNext]_vars

\* ------------------------------------------------------------------------
\* An InputsDump written by the setters from interrupt routines and read by
\* get_data from the main loop, as the header of inputs_dump.rs describes
\* its use: a setter runs to its end once started, and may start between
\* any two statements of get_data.  unit.pc is the statement get_data is
\* at, unit.ready_idx and unit.data its locals; unit.round is the content
\* of the buffer whose filling was completed last, unit.at_call that
\* content and is_updated() when get_data was entered.
\* ------------------------------------------------------------------------
MaxRounds == 3
\* Values written: two for the fields that are mandatory in both
\* configurations, one for the others
DumpValues == [ SUPPLY |-> {1, 2}, TEMP |-> {1}, CURRENT |-> {1}, ANGLE |-> {1, 2} ]
DumpMandatory == { FieldBits, {"SUPPLY", "ANGLE"} }

DumpInit ==
    /\ ControllerInit({Linear(1, 1)})
    /\ table = CalibrationTable_new
    /\ op = Call("new", 0, 0)
    /\ ret = "none"
    /\ nops = 0
    /\ ramp = "none"
    /\ \E m \in DumpMandatory :
         unit = [ d |-> InputsDump_new(m), pc |-> "idle", ready_idx |-> 0,
                  data |-> DataInputs_default, round |-> DataInputs_default,
                  at_call |-> DataInputs_default, was_updated |-> FALSE ]

\* set_supply_adc, set_temper_adc, set_current_adc or set_angle_raw
DumpSet(field, value) ==
    /\ unit.d.iter < MaxRounds
    /\ \E r \in { InputsDump_set(unit.d, field, value) } :
         unit' = [ unit EXCEPT !.d = r.d,
                     !.round = IF r.switched
                               THEN r.d.buffers[unit.d.idx2update + 1]
                               ELSE @ ]
    /\ op' = Call(field, 0, value)
    /\ ret' = "none"
    /\ UNCHANGED << ctlvars, table, ramp, nops >>

\* let ready_idx = self.get_opposite(self.idx2update)
GetDataBegin ==
    /\ unit.pc = "idle"
    /\ unit' = [ unit EXCEPT !.pc = "lock",
                   !.ready_idx = get_opposite(unit.d.idx2update),
                   !.at_call = unit.round,
                   !.was_updated = InputsDump_is_updated(unit.d) ]
    /\ op' = Call("get_data", 0, 0)
    /\ UNCHANGED << ctlvars, table, ramp, ret, nops >>

\* self.flags[ready_idx] |= LOCK
GetDataLock ==
    /\ unit.pc = "lock"
    /\ unit' = [ unit EXCEPT !.pc = "copy",
                   !.d.flags[unit.ready_idx + 1].lock = TRUE ]
    /\ op' = Call("get_data.lock", 0, 0)
    /\ UNCHANGED << ctlvars, table, ramp, ret, nops >>

\* let data = self.buffers[ready_idx]
GetDataCopy ==
    /\ unit.pc = "copy"
    /\ unit' = [ unit EXCEPT !.pc = "mark",
                   !.data = unit.d.buffers[unit.ready_idx + 1] ]
    /\ op' = Call("get_data.copy", 0, 0)
    /\ UNCHANGED << ctlvars, table, ramp, ret, nops >>

\* self.prev_iter = self.iter
GetDataMark ==
    /\ unit.pc = "mark"
    /\ unit' = [ unit EXCEPT !.pc = "unlock", !.d.prev_iter = unit.d.iter ]
    /\ op' = Call("get_data.mark", 0, 0)
    /\ UNCHANGED << ctlvars, table, ramp, ret, nops >>

\* self.flags[ready_idx] &= !LOCK; data.  The locals end with the call.
GetDataUnlock ==
    /\ unit.pc = "unlock"
    /\ unit' = [ unit EXCEPT !.pc = "idle",
                   !.d.flags[unit.ready_idx + 1].lock = FALSE,
                   !.ready_idx = 0,
                   !.data = DataInputs_default,
                   !.at_call = DataInputs_default,
                   !.was_updated = FALSE ]
    /\ ret' = unit.data
    /\ op' = Call("get_data.return", 0, 0)
    /\ UNCHANGED << ctlvars, table, ramp, nops >>

DumpNext ==
    \/ \E field \in FieldBits : \E value \in DumpValues[field] :
          DumpSet(field, value)
    \/ GetDataBegin
    \/ GetDataLock
    \/ GetDataCopy
    \/ GetDataMark
    \/ GetDataUnlock

DumpSpec == DumpInit /\ [][DumpNext]_vars

\* ------------------------------------------------------------------------
\* The stage match of AngleCalibrator::tick driven directly with the stable
\* positions of successive sampling cycles, from a new calibrator to the end
\* of the first-step test.  The rotor rests until the test starts and then
\* moves, per sampling cycle, by one of the two step sizes of unit.pair.
\* unit.hist is the reading Setup recorded followed by the readings given
\* to the FirstStep arm.
\* ------------------------------------------------------------------------
StepPairs == { << -40, -10 >>, << -40, -33 >>, << 40, 33 >>, << 0, 1 >> }

FirstStepInit ==
    /\ ControllerInit({Linear(1, 1)})
    /\ table = CalibrationTable_new
    /\ op = Call("new", 0, 0)
    /\ ret = "none"
    /\ nops = 0
    /\ ramp = "none"
    /\ \E pair \in StepPairs :
         unit = [ c |-> AngleCalibrator_new(Config.frequency), pair |-> pair,
                  pos |-> 0, hist |-> << >> ]

\* One pass through the stage match with the stable position stable_pos
StageStep(stable_pos) ==
    /\ unit.c.calibration_stage \in {"Settle", "Setup", "FirstStep"}
    /\ \E r \in { tick_stage(unit.c, stable_pos, FALSE) } :
         unit' = [ unit EXCEPT !.c = r.c, !.pos = stable_pos,
                     !.hist = IF r.c.calibration_stage = "FirstStep"
                                 \/ unit.c.calibration_stage = "FirstStep"
                              THEN Append(@, stable_pos) ELSE @ ]
    /\ op' = Call("tick_stage", 0, stable_pos)
    /\ UNCHANGED << ctlvars, table, ramp, ret, nops >>

FirstStepNext ==
    \E i \in 1..2 :
       StageStep(IF unit.c.calibration_stage = "FirstStep"
                 THEN unit.pos + unit.pair[i] ELSE unit.pos)

FirstStepSpec == FirstStepInit /\ [][FirstStepNext]_vars

\* ------------------------------------------------------------------------
\* AngleCalibrator::tick called once per control period, from a new
\* calibrator to the end of the backward pass, with an encoder whose
\* position is unit.k counts per count of commanded electrical angle.
\* unit.turned is the commanded angle so far, unwrapped; unit.moved the
\* angle commanded in the sampling cycle in progress; unit.cycles the
\* sampling cycles of the first-step test completed since Setup recorded
\* the initial position and unit.moves the angles those cycles commanded;
\* unit.fwd and unit.bwd are the calls of fill_first and fill_second made,
\* each as << index, commanded angle at which the sample was taken >>.
\* ------------------------------------------------------------------------
CycleRatios == {1, 2, -1, 5}

CycleInit ==
    /\ ControllerInit({Linear(1, 1)})
    /\ table = CalibrationTable_new
    /\ op = Call("new", 0, 0)
    /\ ret = "none"
    /\ nops = 0
    /\ ramp = "none"
    /\ \E k \in CycleRatios :
         unit = [ c |-> AngleCalibrator_new(Config.frequency), k |-> k,
                  turned |-> 0, moved |-> 0, cycles |-> 0, moves |-> {},
                  fwd |-> << >>, bwd |-> << >>, panicked |-> FALSE ]

\* The calibrator's sampling cycle returned a stable position while the
\* stage was `stage`
StableIn(r, stage) == r.stable # I32_MIN /\ unit.c.calibration_stage = stage

CalTick(wrap) ==
    /\ ~unit.panicked
    /\ unit.c.calibration_stage \notin {"Normalization", "Done", "Error"}
    /\ unit.c.calibration_stage \in {"FullRotationPositive", "FullRotationNegative"}
         => Abs(unit.c.cal_idx) < MaxCalIdx
    /\ \E r \in { AngleCalibrator_tick(unit.c, unit.k * unit.turned, wrap) } :
        \E step \in { AsI16(r.ret - unit.c.angle_el) } :
         /\ unit' = IF r.panic THEN [ unit EXCEPT !.panicked = TRUE ]
                    ELSE [ unit EXCEPT
                        !.c = r.c,
                        !.turned = IF StableIn(r, "FullRotationNegative")
                                   THEN @ ELSE @ + step,
                        !.moved = IF r.stable # I32_MIN THEN 0 ELSE @ + step,
                        !.cycles = IF StableIn(r, "FirstStep") THEN @ + 1
                                   ELSE IF StableIn(r, "Setup") THEN 0 ELSE @,
                        !.moves = IF StableIn(r, "FirstStep")
                                  THEN @ \cup { unit.moved + step }
                                  ELSE IF StableIn(r, "Setup") THEN {} ELSE @,
                        !.fwd = IF StableIn(r, "FullRotationPositive")
                                   /\ r.c.calibration_stage = "FullRotationPositive"
                                THEN Append(@, << unit.c.cal_idx, unit.c.angle_el >>)
                                ELSE @,
                        !.bwd = IF StableIn(r, "FullRotationNegative")
                                THEN Append(@, << r.c.cal_idx, unit.c.angle_el >>)
                                ELSE @ ]
         /\ ret' = IF r.panic THEN "panic" ELSE r.ret
    /\ op' = Call("tick", 0, unit.k * unit.turned)
    /\ UNCHANGED << ctlvars, table, ramp, nops >>

\* The overflow answer matters only where cal_idx would go below zero
CycleNext ==
    \E wrap \in (IF unit.c.calibration_stage = "FullRotationNegative"
                    /\ unit.c.cal_idx = 0
                 THEN BOOLEAN ELSE {FALSE}) :
       CalTick(wrap)

CycleSpec == CycleInit /\ [][CycleNext]_vars

\* ------------------------------------------------------------------------
\* CalibrationTable driven directly: resets and in-bounds fill_second calls
\* on a new table.  unit.div is the argument of the last reset (0: none
\* yet) and unit.visited the fill_second calls made since, each with the
\* entry it found and the entry it left.
\* ------------------------------------------------------------------------
MaxSecond == 4
SecondIdxs == {0, 1, 4, 5}
SecondVals == {100, 40000, 65500}

SecondInit ==
    /\ ControllerInit({Linear(1, 1)})
    /\ table = CalibrationTable_new
    /\ op = Call("new", 0, 0)
    /\ ret = "none"
    /\ nops = 0
    /\ ramp = "none"
    /\ unit = [ div |-> 0, visited |-> << >> ]

SReset(div) ==
    /\ nops < MaxSecond
    /\ table' = reset(table, div)
    /\ unit' = [ div |-> div, visited |-> << >> ]
    /\ op' = Call("reset", 0, div)
    /\ ret' = "none"
    /\ nops' = nops + 1
    /\ UNCHANGED << ctlvars, ramp >>

SFillSecond(idx, val) ==
    /\ nops < MaxSecond
    /\ \E r \in { fill_second(table, idx, val) } :
         /\ table' = r.t
         /\ ret' = r.ret
         /\ unit' = [ unit EXCEPT !.visited =
                        Append(@, [ idx |-> idx, val |-> val,
                                    existing |-> table.cal_table[idx],
                                    stored |-> r.t.cal_table[idx] ]) ]
    /\ op' = Call("fill_second", idx, val)
    /\ nops' = nops + 1
    /\ UNCHANGED << ctlvars, ramp >>

SecondNext ==
    \/ \E div \in {1, 4} : SReset(div)
    \/ \E idx \in SecondIdxs, val \in SecondVals : SFillSecond(idx, val)

SecondSpec == SecondInit /\ [][SecondNext]_vars

\* ------------------------------------------------------------------------
\* The position integrators driven directly: a Position (unit.kind
\* "Position") or an EncoderPosition with filter coefficient unit.alpha,
\* after a history that left it at rest at one of IntegratorStarts, ticked
\* with a raw angle that moves by one of IntegratorSteps per tick.
\* unit.angle is the angle the position was updated with in the last tick
\* (the raw angle, or the filter's output), unit.prev_angle and
\* unit.prev_position the angle and the position before that tick.
\* ------------------------------------------------------------------------
MaxIntegratorTicks == 4
\* New, and close to either end of the i32 range
IntegratorStarts == { 0, 32767 * 65536 + 60000, (-32768) * 65536 + 5000 }
IntegratorSteps == { -32767, -6000, -1, 0, 1, 6000, 32767 }
IntegratorAlphas == { 0, 128 }

IntegratorInit ==
    /\ ControllerInit({Linear(1, 1)})
    /\ table = CalibrationTable_new
    /\ op = Call("new", 0, 0)
    /\ ret = "none"
    /\ nops = 0
    /\ ramp = "none"
    /\ \E start \in IntegratorStarts :
         \/ unit = [ kind |-> "Position", alpha |-> 0,
                     e |-> [ EncoderPosition_new(TrackFreq) EXCEPT !.position = start ],
                     raw |-> AsU16(start), angle |-> AsU16(start),
                     prev_angle |-> AsU16(start), prev_position |-> start,
                     panicked |-> FALSE ]
         \/ \E alpha \in IntegratorAlphas :
              unit = [ kind |-> "EncoderPosition", alpha |-> alpha,
                       e |-> EncoderPosition_at(start, TrackFreq, alpha),
                       raw |-> AsU16(start), angle |-> AsU16(start),
                       prev_angle |-> AsU16(start), prev_position |-> start,
                       panicked |-> FALSE ]

\* Position::tick(input_pos)
PositionTick(input_pos) ==
    /\ nops < MaxIntegratorTicks
    /\ unit.kind = "Position"
    /\ \E p \in { Position_tick(unit.e.position, input_pos) } :
         /\ unit' = [ unit EXCEPT !.e.position = p, !.raw = input_pos,
                                  !.angle = input_pos,
                                  !.prev_angle = unit.angle,
                                  !.prev_position = unit.e.position ]
         /\ ret' = p
    /\ op' = Call("Position::tick", 0, input_pos)
    /\ nops' = nops + 1
    /\ UNCHANGED << ctlvars, table, ramp >>

\* EncoderPosition::tick(input_pos)
EncoderPositionTick(input_pos, wrap) ==
    /\ nops < MaxIntegratorTicks
    /\ unit.kind = "EncoderPosition"
    /\ ~unit.panicked
    /\ \E r \in { EncoderPosition_tick(unit.e, input_pos, wrap) } :
         /\ unit' = IF r.panic THEN [ unit EXCEPT !.panicked = TRUE ]
                    ELSE [ unit EXCEPT !.e = r.e, !.raw = input_pos,
                                       !.angle = r.e.filter.output,
                                       !.prev_angle = unit.angle,
                                       !.prev_position = unit.e.position ]
         /\ ret' = IF r.panic THEN "panic" ELSE r.e.position
    /\ op' = Call("EncoderPosition::tick", 0, input_pos)
    /\ nops' = nops + 1
    /\ UNCHANGED << ctlvars, table, ramp >>

IntegratorNext ==
    \E step \in IntegratorSteps :
       \/ PositionTick(AsU16(unit.raw + step))
       \/ \E wrap \in BOOLEAN : EncoderPositionTick(AsU16(unit.raw + step), wrap)

IntegratorSpec == IntegratorInit /\ [][IntegratorNext]_vars

\* ------------------------------------------------------------------------
\* Properties of the controller and the calibrator
\* ------------------------------------------------------------------------
Stage == angle_calibrator.calibration_stage
CycleStage == angle_calibrator.cal_cycle_stage
Sentinel == << I32_MIN >>
\* The last tick called the calibrator and its sampling cycle returned a
\* stable position
GotStable == stable # << >> /\ stable # Sentinel

\* C1: the driver starts Calibrating and is Ready exactly when the
\* calibrator's stage is Done: it becomes Ready on the tick that brings the
\* calibrator to Done and is never Ready in an earlier stage.
C1_ReadyIffCalibratorDone ==
    /\ (driver_status = "Ready") <=> (Stage = "Done")
    /\ Stage = "Settle" => driver_status = "Calibrating"

C1_Witness == driver_status = "Ready" /\ Stage = "Done" /\ ticker = 0

\* C2: when the calibrator is in its Error stage the driver status is Error
\* (and so stays Error, the Error stage being absorbing).
C2_CalibratorErrorIsDriverError == Stage = "Error" => driver_status = "Error"

\* C4: the calibrator stage only moves one step forward along the fixed
\* order, Error is entered only from FirstStep, and no tick leaves Error or
\* Done.
StageOrder ==
    { << "Settle", "Setup" >>, << "Setup", "FirstStep" >>,
      << "FirstStep", "SearchZero" >>, << "SearchZero", "FullRotationPositive" >>,
      << "FullRotationPositive", "FullRotationNegative" >>,
      << "FullRotationNegative", "Normalization" >>, << "Normalization", "Done" >>,
      << "FirstStep", "Error" >> }

C4_StageOrder ==
    [][ Stage' # Stage => << Stage, Stage' >> \in StageOrder ]_vars

C4_Witness == Stage = "Done" /\ idle > 0

\* C5: the sampling cycle runs Setup, Rotating, Waiting, Sampling, Setup;
\* a calibrator tick returns a stable position exactly when it makes the
\* 64th Sampling call of the cycle, that value is the truncated average of
\* the 64 positions sampled, and the stage, the calibration index and the
\* table change only on such a tick.  (A tick that panics returns nothing.)
CycleOrder ==
    { << "Setup", "Rotating" >>, << "Rotating", "Waiting" >>,
      << "Waiting", "Sampling" >>, << "Sampling", "Setup" >> }

C5_SamplingCycle ==
    [][ /\ CycleStage' # CycleStage => << CycleStage, CycleStage' >> \in CycleOrder
        /\ (stable' # << >> /\ ~panicked') =>
             /\ (stable' # Sentinel) <=> (CycleStage = "Sampling" /\ n_samples' = 64)
             /\ stable' # Sentinel => stable'[1] = TruncDiv(sum_samples', 64)
        /\ ( \/ Stage' # Stage
             \/ angle_calibrator'.cal_idx # angle_calibrator.cal_idx
             \/ angle_calibrator'.cal_table # angle_calibrator.cal_table )
           => (stable' # << >> /\ stable' # Sentinel) ]_vars

C5_Witness == GotStable /\ n_samples = 64 /\ Stage = "FullRotationPositive"

\* C8: once the table validation has failed, the calibrator is not in its
\* ready stage and the driver is not Ready.
C8_FailedValidationBlocksReady ==
    checked = "fail" => (Stage # "Done" /\ driver_status # "Ready")

\* C9: a fill_first call whose index is out of bounds, or is neither the
\* last accepted index nor the one after it, returns false and leaves
\* cal_size, the entries and the last accepted index as they were; any
\* other fill_first call stores the value at the index and returns true.
C9_FillFirstContract ==
    [][ op'.name = "fill_first" =>
          IF op'.idx >= N \/ op'.idx \notin {table.temp_idx, table.temp_idx + 1}
          THEN /\ ret' = FALSE
               /\ table'.cal_size = table.cal_size
               /\ table'.cal_table = table.cal_table
               /\ table'.temp_idx = table.temp_idx
          ELSE /\ ret' = TRUE
               /\ table'.cal_table[op'.idx] = op'.val ]_vars

\* A call that steps backwards inside the table has been rejected
C9_Witness ==
    /\ op.name = "fill_first" /\ ret = FALSE
    /\ op.idx < table.temp_idx

\* Distance between two angles on the 16-bit circle
CircDist(a, b) == Abs(AsI16(a - b))

\* C10: in the ramp run, check() returns true and leaves max_deviation at
\* most 1, and correct_pos of the sample stored at an index returns a
\* corrected angle within 1 count of the ramp value and of the ideal value
\* at that index.
C10_RampRoundTrip ==
    /\ op.name = "check" => (ret = TRUE /\ table.max_deviation <= 1)
    /\ op.name = "correct_pos" =>
         /\ CircDist(ret[1], RampVal(op.idx)) <= 1
         /\ CircDist(ret[1], get_ideal(op.idx, N)) <= 1

\* The last sample of a full table has been corrected
C10_Witness ==
    /\ op.name = "correct_pos" /\ op.idx = N - 1
    /\ table.cal_size = N /\ op.val = RampVal(N - 1)

\* C6: with a linear noiseless encoder reading k times the electrical angle
\* (integer k >= 1), ticking from the initial state eventually brings the
\* calibrator to Done and the driver to Ready, and the calibrator never
\* enters Error.  (A run the model has stopped following at its bounds
\* counts as not refuting this.)
C6_LinearEncoderReachesReady ==
    /\ <>((driver_status = "Ready" /\ Stage = "Done") \/ ~WithinBounds)
    /\ [](Stage # "Error" /\ driver_status # "Error")

\* C7: whatever the encoder reports, the calibration reaches Done or Error
\* after finitely many ticks.  (A run the model has stopped following at
\* its bounds counts as not refuting this.)
C7_CalibrationTerminates ==
    <>(Stage \in {"Done", "Error"} \/ ~WithinBounds)

\* Absolute deviation of filled entry i of table t, once the offset is
\* subtracted, from the ideal ramp value at its index counted from the
\* offset entry
EntryDeviation(t, i) ==
    LET val == AsU16(t.cal_table[i] - t.offst_val)
        k   == ((t.cal_size + i) - t.offst_idx) % t.cal_size
    IN  Abs(AsI16(((U16_MAX * k) \div t.cal_size) - val))

EntryDeviations(t) == { EntryDeviation(t, i) : i \in 0..(t.cal_size - 1) }

\* C11: check() returns false exactly when some filled entry deviates from
\* its ideal ramp value by more than the average step u16::MAX / cal_size (a
\* deviation equal to the average step passes), and when it returns true
\* max_deviation is the largest deviation over the filled entries.
C11_CheckContract ==
    [][ op'.name = "check" =>
          /\ (ret' = FALSE) <=>
               (\E d \in EntryDeviations(table) : d > U16_MAX \div table.cal_size)
          /\ ret' = TRUE =>
               \A d \in EntryDeviations(table) : d <= table'.max_deviation
          /\ ret' = TRUE => table'.max_deviation \in EntryDeviations(table) ]_vars

\* C13: one wrap-aware tick with alpha = 0 outputs exactly its input, from
\* every previous filter state.
C13_AlphaZeroPassThrough ==
    [][ (op'.name = "tick" /\ unit.f.alpha = 0) => unit'.f.output = op'.val ]_vars

\* A pass-through tick across the 0/65535 wrap, from a state left by
\* filtering: the output was above 65000 and the input is 5
C13_Witness ==
    /\ op.name = "tick" /\ unit.f.alpha = 0 /\ unit.f.output = op.val
    /\ op.val = 5 /\ unit.before > 65000 /\ unit.before < 65530

\* C14: with alpha = 255 a tick leaves the filter output as it was.
C14_Alpha255Frozen ==
    [][ (op'.name = "tick" /\ unit.f.alpha = 255) => unit'.f.output = unit.f.output ]_vars

\* The position passed SIZE ticks before the latest one; while fewer ticks
\* have been made, the initial position, which new() stores in every slot
PositionBefore(hist) ==
    IF Len(hist) > SIZE THEN hist[Len(hist) - SIZE] ELSE hist[1]

\* |d| * f / SIZE with the sign of d, that is d * f / 8 rounded towards
\* zero, when it is an i32
ExactSpeed(d, f) ==
    LET m == mul_limbs(Abs(d), f)
    IN  [ fits |-> m.hi < 2 ^ 18,
          v    |-> IF m.hi < 2 ^ 18
                   THEN Signum(d) * (m.hi * (65536 \div SIZE) + (m.lo \div SIZE))
                   ELSE 0 ]

\* C15: a tick returns (p - position passed 8 ticks earlier) * frequency / 8
\* whenever that number is an i32 (so 0 while the position does not change).
C15_SpeedFormula ==
    [][ op'.name = "tick" =>
          LET e == ExactSpeed(op'.val - PositionBefore(unit'.hist), unit.se.freq)
          IN  e.fits => (~unit'.panicked /\ ret' = e.v /\ unit'.se.speed = e.v) ]_vars

\* C12: on a tick whose angle lies less than half the range ahead of the
\* previous one, the rotation count grows by 1 if the angle wrapped past
\* 65535 (the new angle is the smaller number) and by 0 otherwise, and
\* angle() is the angle just passed.
C12_WrapsCounted ==
    [][ op'.name = "tick" =>
          /\ ~unit'.panicked
          /\ unit'.h.rotations - unit.h.rotations
               = (IF op'.val < unit.last THEN 1 ELSE 0)
          /\ unit'.h.angle = op'.val ]_vars

\* The first tick of a PID, made with feedfwd = 0 and |error| <= limit
FirstPlainTick ==
    /\ op.name = "tick" /\ nops = 1
    /\ unit.feedfwd = 0 /\ Abs(unit.error) <= unit.limit

\* C16 as stated: 100% is the gain 10000 (100.00%), and with it alone the
\* first tick's output is the error.
C16_HundredPercentIs10000 ==
    (FirstPlainTick /\ unit.gains = << 10000, 0, 0, 0 >>)
        => unit.pid.output = unit.error

\* C16, amended: the gains are whole percents, clamped to -10000..10000;
\* 100 is 100%, and with kp = 100 alone the first tick's output is the
\* error.
C16_HundredPercentIs100 ==
    (FirstPlainTick /\ unit.gains = << 100, 0, 0, 0 >>)
        => unit.pid.output = unit.error

\* tick(1000, 0, 10000) on PID::new(100, 0, 0, 0)
C16_Witness ==
    /\ FirstPlainTick /\ unit.gains = << 100, 0, 0, 0 >>
    /\ unit.error = 1000 /\ unit.limit = 10000 /\ unit.pid.output = 1000

\* C17: after each tick the stored integral and the output are within
\* +-limit of that tick.
C17_IntegralAndOutputWithinLimit ==
    op.name = "tick" =>
        /\ Abs(unit.pid.integral) <= unit.limit
        /\ Abs(unit.pid.output) <= unit.limit

\* The integral carried over from a tick with a larger limit is cut down to
\* the limit of a later tick, from below
C17_Witness ==
    /\ op.name = "tick" /\ nops > 1
    /\ unit.limit = 100 /\ unit.pid.integral = -100 /\ unit.pid.output = -100
    /\ unit.error = I16_MIN

\* C18: for a supply in 0..=i16::MAX each of the three values returned by
\* math_svpwm lies between 0 and the supply.
C18_PhasesWithinSupply ==
    (unit.fn = "math_svpwm" /\ unit.voltg_available >= 0) =>
        \A i \in 1..3 : 0 <= ret[i] /\ ret[i] <= unit.voltg_available

\* A command whose span exceeds the supply, scaled down so that the
\* phases reach both ends of the supply range
C18_Witness ==
    /\ unit.fn = "math_svpwm"
    /\ unit.voltg_sin = I16_MIN /\ unit.voltg_cos = I16_MAX
    /\ unit.voltg_available = 1000
    /\ Min3(ret) = 0 /\ Max3(ret) > 990

PWM_MIDPOINT == TruncDiv(I16_MAX, 2)

\* C20 as stated: the sentinel comes back on both outputs, and 0 gives the
\* midpoint on both outputs.
C20_ZeroGivesMidpoint ==
    unit.fn \in CoilFns =>
        /\ unit.voltg_ref = I16_MIN => ret = << I16_MIN, I16_MIN >>
        /\ unit.voltg_ref = 0 => ret = << PWM_MIDPOINT, PWM_MIDPOINT >>

\* C20, amended: the sentinel comes back on both outputs; 0 comes back as
\* (0, 0) from math_coil of tunepulse_algo and from duty::center, and as
\* the midpoint on both outputs from math_coil of tunepulse_rs only.
C20_ZeroPassesThrough ==
    unit.fn \in CoilFns =>
        /\ unit.voltg_ref = I16_MIN => ret = << I16_MIN, I16_MIN >>
        /\ unit.voltg_ref = 0 =>
             ret = IF unit.fn = "math_coil_rs" THEN << PWM_MIDPOINT, PWM_MIDPOINT >>
                   ELSE << 0, 0 >>

\* math_coil(0) of tunepulse_algo
C20_Witness ==
    unit.fn = "math_coil" /\ unit.voltg_ref = 0 /\ ret = << 0, 0 >>

\* The input channel the claim assigns to output channel i (0-based)
PatternIndex(pattern, i) == Shr(PhasePattern[pattern], 2 * i) % 4

\* C21: PhaseSelector::tick outputs input[(pattern >> 2i) & 3] on channel i,
\* every input channel feeds exactly one output channel, and ABCD returns
\* the input as it is.
C21_PhasePermutation ==
    unit.fn = "PhaseSelector_tick" =>
        /\ \A i \in 0..3 :
             ret[i + 1] = unit.voltages[PatternIndex(unit.pattern, i) + 1]
        /\ \A j \in 0..3 :
             Cardinality({ i \in 0..3 : PatternIndex(unit.pattern, i) = j }) = 1
        /\ unit.pattern = "ABCD" => ret = unit.voltages

\* DCAB on four different channel values
C21_Witness ==
    /\ unit.fn = "PhaseSelector_tick" /\ unit.pattern = "DCAB"
    /\ unit.voltages = << I16_MIN, -1, 0, 7 >>
    /\ ret = << 7, 0, I16_MIN, -1 >>

\* C22: when is_updated() held as get_data was entered, the snapshot it
\* returns has in every mandatory field the value of the fill round that
\* was the last one completed then; and a buffer is never the one the
\* setters write to while its LOCK bit is set.
C22_SnapshotOfCompletedRound ==
    /\ [][ (op'.name = "get_data.return" /\ unit.was_updated) =>
             \A f \in unit.d.mandatory : ret'[f] = unit.at_call[f] ]_vars
    /\ [](\A idx \in {0, 1} :
             unit.d.flags[idx + 1].lock => unit.d.idx2update # idx)

\* ------------------------------------------------------------------------
\* The first-step motion test
\* ------------------------------------------------------------------------
\* The step differences of a sequence of readings
StepDifs(hist) == { hist[i] - hist[i + 1] : i \in 1..(Len(hist) - 1) }
SetMax(S) == CHOOSE x \in S : \A y \in S : y <= x
SetMin(S) == CHOOSE x \in S : \A y \in S : x <= y
\* Largest step difference minus smallest
Deviation(hist) == SetMax(StepDifs(hist)) - SetMin(StepDifs(hist))
\* Absolute total travel over the number of steps
AvgStep(hist) == TruncDiv(Abs(hist[1] - hist[Len(hist)]), CAL_FIRST_STEP_USTEPS)
FirstStepOver ==
    unit.c.calibration_stage \notin {"Settle", "Setup", "FirstStep"}

\* C23 (as stated): the test ends in Error exactly when the average step is
\* smaller than the deviation between steps, else it goes on to SearchZero.
C23_ErrorIffBelowDeviation ==
    FirstStepOver =>
       /\ unit.c.calibration_stage = "Error"
             <=> AvgStep(unit.hist) < Deviation(unit.hist)
       /\ unit.c.calibration_stage \in {"Error", "SearchZero"}

\* C23 (amended): the test ends in Error exactly when the average step is
\* smaller than twice the deviation between steps, else it goes on to
\* SearchZero.
C23_ErrorIffBelowTwiceDeviation ==
    FirstStepOver =>
       /\ unit.c.calibration_stage = "Error"
             <=> AvgStep(unit.hist) < 2 * Deviation(unit.hist)
       /\ unit.c.calibration_stage \in {"Error", "SearchZero"}

\* An average step between the deviation and twice the deviation: Error
C23_Witness ==
    /\ FirstStepOver
    /\ unit.c.calibration_stage = "Error"
    /\ Deviation(unit.hist) <= AvgStep(unit.hist)
    /\ AvgStep(unit.hist) < 2 * Deviation(unit.hist)

\* C24: whenever the first-step test does not end in Error, the inferred
\* direction is +1 or -1 and the calibration speed is non-zero, so the
\* division steps / |speed| of the next sampling cycle does not trap.
C24_DirectionKnownAfterTest ==
    (FirstStepOver /\ unit.c.calibration_stage # "Error") =>
       /\ unit.c.direction \in {1, -1}
       /\ unit.c.speed # 0
       /\ ~run_sampling_cycle(unit.c, unit.c.ang_el_step).panic

\* C25: between the initial position reading and the analysis the
\* first-step test makes exactly CAL_FIRST_STEP_USTEPS = 16 step-and-sample
\* cycles, each commanding u16::MAX / 16 counts of electrical angle, so the
\* travel that is divided by 16 is that of 16 steps.
C25_SixteenCycles ==
    unit.c.calibration_stage \in {"SearchZero", "Error"} =>
       /\ unit.cycles = CAL_FIRST_STEP_USTEPS
       /\ unit.moves = { U16_MAX \div CAL_FIRST_STEP_USTEPS }
       /\ unit.c.init_pos - unit.c.temp_pos
            = -(unit.k * CAL_FIRST_STEP_USTEPS * (U16_MAX \div CAL_FIRST_STEP_USTEPS))

\* ------------------------------------------------------------------------
\* The forward and the backward pass
\* ------------------------------------------------------------------------
\* The calls of fill_first in the order opposite to the one they were made in
Backwards(calls) == [ j \in 1..Len(calls) |-> calls[Len(calls) - j + 1] ]

\* C26: during the backward pass fill_second is called once for every
\* index the forward pass gave to fill_first, in descending order down to
\* index 0, each backward sample being taken at the commanded electrical
\* angle of the forward sample of the same index.
C26_BackwardMirrorsForward ==
    /\ Len(unit.bwd) <= Len(unit.fwd)
    /\ \A j \in 1..Len(unit.bwd) : j <= Len(unit.fwd) =>
          unit.bwd[j] = Backwards(unit.fwd)[j]
    /\ unit.c.calibration_stage = "Normalization" =>
          /\ Len(unit.bwd) = Len(unit.fwd)
          /\ Len(unit.bwd) > 0 /\ unit.bwd[Len(unit.bwd)][1] = 0

\* ------------------------------------------------------------------------
\* The backward-pass averaging of the table
\* ------------------------------------------------------------------------
\* Half the signed 16-bit distance from a to b, rounded towards zero
HalfWay(a, b) ==
    LET d == IF (b - a) % 65536 >= 32768 THEN ((b - a) % 65536) - 65536
             ELSE (b - a) % 65536
    IN  IF d >= 0 THEN d \div 2 ELSE -((-d) \div 2)

\* The calls since the reset whose index is a multiple of el_angle_div
Candidates == { j \in 1..Len(unit.visited) : unit.visited[j].idx % unit.div = 0 }

Ticked == nops > 0 /\ ~unit.panicked
\* The angle moved from a0 to a1 by less than half the range: upwards
\* (forward) or downwards
MovedUp(a0, a1) == (a1 - a0) % 65536 < 32768
MovedDown(a0, a1) == (a0 - a1) % 65536 < 32768
\* The high 16 bits of a position, as the unsigned 16-bit pattern
HighBits(pos) == (pos \div 65536) % 65536

\* C28: after every tick the low 16 bits of the position are the angle the
\* tick was given (after the filter, where there is one); and when that
\* angle has moved by less than half the range, the high 16 bits have gone
\* up by one if it moved upwards past 65535, down by one if it moved
\* downwards past 0, and are unchanged otherwise (one step in 16 bits: the
\* position wraps at the ends of the i32 range).
C28_LowBitsAngleHighBitsTurns ==
    Ticked =>
       /\ unit.e.position % 65536 = unit.angle
       /\ (MovedUp(unit.prev_angle, unit.angle) \/ MovedDown(unit.prev_angle, unit.angle)) =>
            (HighBits(unit.e.position) - HighBits(unit.prev_position)) % 65536
              = IF MovedUp(unit.prev_angle, unit.angle) /\ unit.angle < unit.prev_angle
                THEN 1
                ELSE IF ~MovedUp(unit.prev_angle, unit.angle)
                        /\ unit.angle > unit.prev_angle
                THEN 65535
                ELSE 0

\* An EncoderPosition whose angle went down past 0: one turn back
C28_Witness ==
    /\ Ticked
    /\ unit.kind = "EncoderPosition"
    /\ unit.angle > unit.prev_angle
    /\ MovedDown(unit.prev_angle, unit.angle)
    /\ Position_rotations(unit.e.position) = Position_rotations(unit.prev_position) - 1

\* C29: in CurrentAB mode normal_run completes for every commanded current
\* and every supply reading, zero included, and the amplitude it scales the
\* sine and cosine with lies within -i16::MAX ..= i16::MAX and has the sign
\* of the commanded current.
C29_NoTrapAmplitudeClamped ==
    (unit.fn = "normal_run" /\ unit.control_mode = "CurrentAB") =>
       /\ ~ret.panic
       /\ -I16_MAX <= ret.scale /\ ret.scale <= I16_MAX
       /\ Signum(ret.scale) \in {0, Signum(unit.current)}

\* C30: for every reference other than the disabled sentinel the two
\* outputs of math_coil (and of duty::center) are MIDPOINT + d and
\* MIDPOINT - d for the same d, half the reference; they sum to
\* 2 * MIDPOINT and both lie in 0 ..= i16::MAX.
C30_ComplementaryAroundMidpoint ==
    (unit.fn \in {"math_coil", "center"} /\ unit.voltg_ref # I16_MIN) =>
       /\ \E d \in { ret[1] - PWM_MIDPOINT } :
             /\ ret[2] = PWM_MIDPOINT - d
             /\ 2 * d \in { unit.voltg_ref - 1, unit.voltg_ref, unit.voltg_ref + 1 }
       /\ ret[1] + ret[2] = 2 * PWM_MIDPOINT
       /\ \A i \in 1..2 : 0 <= ret[i] /\ ret[i] <= I16_MAX

====
